---- MODULE Spec2Model ----
(***************************************************************************)
(* Vector extraction core of stratos-bid (services/vector-extractor):      *)
(* geometry.py and the cleaning / snap-point pipeline of extractor.py.     *)
(*                                                                         *)
(* Numbers.  The program computes on floats; the model computes on exact   *)
(* integers.  A segment endpoint is <<x, y>> with integer x, y.  A         *)
(* distance is kept as its square (distance_sq) and every comparison of a  *)
(* distance is made on the squares, which is the same comparison because   *)
(* sqrt is monotone.  An angle is kept as a direction vector, and angle    *)
(* comparisons are made on cross and dot products.  A derived point        *)
(* (midpoint, intersection) is a fraction <<X, Y, D>> meaning (X/D, Y/D),  *)
(* D > 0, in lowest terms.  Float rounding is not modelled.                *)
(*                                                                         *)
(* The service layer (main.py) is modelled at the level of its event loop: *)
(* a handler runs without interruption from one await to the next.         *)
(***************************************************************************)
EXTENDS Integers, Sequences, FiniteSets, TLC

VARIABLES
    raw,            \* clean_lines: the argument `lines`
    input0,         \* history: the list handed to clean_lines at the call
    pc,             \* position in clean_lines / merge_collinear_segments
    run,            \* 1 = first cleaning, 2 = cleaning of the first output
    firstOut,       \* history: output of the first cleaning
    filtered,       \* clean_lines: the local `filtered`
    segments,       \* merge: [start, end, width, merged_flag] per segment
    merged,         \* merge: the output list `merged`
    i,              \* merge: index of the outer loop (1-based)
    j,              \* merge: index of the inner for loop (1-based)
    current_start,  \* merge: current_start
    current_end,    \* merge: current_end
    changed,        \* merge: the flag of the while loop
    emitCount,      \* history: times each segment was emitted as a seed
    absorbCount,    \* history: times each segment was absorbed
    ev,             \* history: what the last step did
    candidates,     \* generate_snap_points: snap_points before dedupe
    snap_points,    \* generate_snap_points: the returned unique_points
    result,         \* extract_page_vectors: the returned dictionary
    g_l1, g_l2,     \* geometry calls: the two line arguments
    g_op,           \* geometry calls: which function was applied
    g_ret,          \* geometry calls: its return value
    f_points,       \* dedupe_points call: the argument `points`
    f_counts,       \* assess_quality call: <<raw_count, cleaned_count, snap_count>>
    requests,       \* main.py: per request, its position and its semaphore
    permits,        \* main.py: the value of each asyncio.Semaphore
    sem_ev,         \* history: what the last step of a request did
    s_req,          \* extract_sync / extract_sync_from_url: the request
    s_pc,           \* extract_sync / extract_sync_from_url: position
    tmp_path,       \* extract_sync / extract_sync_from_url: tmp_path
    files,          \* the temporary files that exist
    response,       \* extract_sync / extract_sync_from_url: the response
    jobs,           \* main.py: the dictionary `jobs`
    tasks,          \* run_extraction: position of the background task per job
    now,            \* time.time()
    created,        \* history: the time of POST /extract per job
    observed,       \* history: the last answer of GET /status per job
    job_ev          \* history: what the last step on the jobs did

cleanVars == <<raw, input0, pc, run, firstOut, filtered, segments, merged, i, j,
               current_start, current_end, changed, emitCount, absorbCount, ev,
               candidates, snap_points, result>>
geomVars == <<g_l1, g_l2, g_op, g_ret, f_points, f_counts>>
semVars == <<requests, permits, sem_ev>>
syncVars == <<s_req, s_pc, tmp_path, files, response>>
jobVars == <<jobs, tasks, now, created, observed, job_ev>>
svcVars == <<semVars, syncVars, jobVars>>
vars == <<cleanVars, geomVars, svcVars>>

----------------------------------------------------------------------------
(* Program constants *)

MIN_LINE_LENGTH == 5
MERGE_TOLERANCE == 3
COLLINEAR_TOLERANCE == 3
DEDUPE_TOLERANCE == 2
\* angle_tolerance = 0.05 rad, kept as its tangent: tan(0.05) = 0.0500417...
\* No quotient |cross| / |dot| of the model lies between 0.0500417 and 0.050042.
ANGLE_TAN_NUM == 50042
ANGLE_TAN_DEN == 1000000

(* Bound of the model: longest raw list handed to clean_lines *)
MaxLen == 3

----------------------------------------------------------------------------
(* geometry.py *)

Abs(x) == IF x < 0 THEN -x ELSE x

Sq(x) == x * x

\* distance(p1, p2), squared
distance_sq(p1, p2) == Sq(p2[1] - p1[1]) + Sq(p2[2] - p1[2])

\* line_angle(line): the angle as a direction vector.  atan2(0, 0) is 0, the
\* direction <<1, 0>>.  `if angle < 0: angle += pi` turns a vector of the lower
\* half plane around; atan2 = pi (dy = 0, dx < 0) is not below 0 and stays.
line_angle(line) ==
    LET dx == line[2][1] - line[1][1]
        dy == line[2][2] - line[1][2]
    IN  IF dx = 0 /\ dy = 0 THEN <<1, 0>>
        ELSE IF dy < 0 THEN <<-dx, -dy>>
        ELSE <<dx, dy>>

\* angle_diff = abs(angle1 - angle2) of two angles in [0, pi], as <<cos, sin>>
\* up to a common positive factor; the wrap-around is left out
angle_diff_noFold(a1, a2) ==
    <<a1[1] * a2[1] + a1[2] * a2[2], Abs(a1[1] * a2[2] - a1[2] * a2[1])>>

\* angle_diff = abs(angle1 - angle2) of two angles in [0, pi], as <<cos, sin>>
\* up to a common positive factor, then the wrap-around:
\* if angle_diff > pi / 2 (cos < 0): angle_diff = pi - angle_diff
angle_diff(a1, a2) ==
    LET c == a1[1] * a2[1] + a1[2] * a2[2]
        s == Abs(a1[1] * a2[2] - a1[2] * a2[1])
    IN  IF c < 0 THEN <<-c, s>> ELSE <<c, s>>

\* angle_diff > angle_tolerance, for angle_diff in [0, pi/2]: tan above tan(tol)
angle_exceeds(d) == d[2] * ANGLE_TAN_DEN > d[1] * ANGLE_TAN_NUM

\* point_to_line_distance(point, line) < tol
point_to_line_lt(point, line, tol) ==
    LET x1 == line[1][1]
        y1 == line[1][2]
        x2 == line[2][1]
        y2 == line[2][2]
        line_len2 == distance_sq(line[1], line[2])
        numerator == Abs((y2 - y1) * point[1] - (x2 - x1) * point[2] + x2 * y1 - y2 * x1)
    IN  IF line_len2 = 0 THEN distance_sq(point, line[1]) < Sq(tol)
        ELSE Sq(numerator) < Sq(tol) * line_len2

lines_collinear(line1, line2) ==
    IF angle_exceeds(angle_diff(line_angle(line1), line_angle(line2))) THEN FALSE
    ELSE /\ point_to_line_lt(line2[1], line1, COLLINEAR_TOLERANCE)
         /\ point_to_line_lt(line2[2], line1, COLLINEAR_TOLERANCE)

\* midpoint(p1, p2) as a fraction
RECURSIVE GCD(_, _)
GCD(a, b) == IF b = 0 THEN a ELSE GCD(b, a % b)

\* the fraction (X/D, Y/D) in lowest terms with D > 0
Frac(X, Y, D) ==
    LET g == GCD(GCD(Abs(X), Abs(Y)), Abs(D))
        sgn == IF D < 0 THEN -1 ELSE 1
    IN  <<(sgn * X) \div g, (sgn * Y) \div g, (sgn * D) \div g>>

\* an integer point as a fraction
FracOf(p) == <<p[1], p[2], 1>>

midpoint(p1, p2) == Frac(p1[1] + p2[1], p1[2] + p2[2], 2)

\* distance(p, q) <= tol for two fractions
frac_distance_le(p, q, tol) ==
    Sq(p[1] * q[3] - q[1] * p[3]) + Sq(p[2] * q[3] - q[2] * p[3])
        <= Sq(tol) * Sq(p[3]) * Sq(q[3])

\* distance(p, q) < tol for two fractions
frac_distance_lt(p, q, tol) ==
    Sq(p[1] * q[3] - q[1] * p[3]) + Sq(p[2] * q[3] - q[2] * p[3])
        < Sq(tol) * Sq(p[3]) * Sq(q[3])

\* the value None
None == <<>>

\* 0 <= n / d <= 1
in_unit(n, d) == IF d > 0 THEN 0 <= n /\ n <= d ELSE 0 <= -n /\ -n <= -d

\* the parameter u of line_intersection times denom, without the leading minus
u_numerator_noMinus(x1, y1, x2, y2, x3, y3) ==
    (x1 - x2) * (y1 - y3) - (y1 - y2) * (x1 - x3)

\* the parameter u of line_intersection times denom
u_numerator(x1, y1, x2, y2, x3, y3) ==
    -((x1 - x2) * (y1 - y3) - (y1 - y2) * (x1 - x3))

\* |denom| < 1e-10 of an integer determinant
near_zero(denom) == denom = 0

line_intersection(line1, line2) ==
    LET x1 == line1[1][1]
        y1 == line1[1][2]
        x2 == line1[2][1]
        y2 == line1[2][2]
        x3 == line2[1][1]
        y3 == line2[1][2]
        x4 == line2[2][1]
        y4 == line2[2][2]
        denom == (x1 - x2) * (y3 - y4) - (y1 - y2) * (x3 - x4)
        tn == (x1 - x3) * (y3 - y4) - (y1 - y3) * (x3 - x4)
        un == u_numerator(x1, y1, x2, y2, x3, y3)
    IN  IF near_zero(denom) THEN None
        ELSE IF in_unit(tn, denom) /\ in_unit(un, denom)
             THEN Frac(x1 * denom + tn * (x2 - x1), y1 * denom + tn * (y2 - y1), denom)
             ELSE None

\* the inner loop of dedupe_points, comparing with the last kept point only
is_duplicate_last(point, unique, tolerance) ==
    unique # <<>> /\ frac_distance_lt(point, unique[Len(unique)], tolerance)

\* the inner loop of dedupe_points: is `point` within tolerance of a kept point
is_duplicate(point, unique, tolerance) ==
    \E k \in 1..Len(unique) : frac_distance_lt(point, unique[k], tolerance)

RECURSIVE dedupe_from(_, _, _, _)
dedupe_from(points, k, unique, tolerance) ==
    IF k > Len(points) THEN unique
    ELSE dedupe_from(points, k + 1,
                     IF is_duplicate(points[k], unique, tolerance) THEN unique
                     ELSE Append(unique, points[k]),
                     tolerance)

\* dedupe_points with unique = [] at the start, the first point never kept
dedupe_points_skipFirst(points, tolerance) ==
    IF points = <<>> THEN <<>>
    ELSE dedupe_from(points, 2, <<>>, tolerance)

dedupe_points(points, tolerance) ==
    IF points = <<>> THEN <<>>
    ELSE dedupe_from(points, 2, <<points[1]>>, tolerance)

----------------------------------------------------------------------------
(* extractor.py: clean_lines *)

\* the test of the filter loop with the threshold 10.0 of api/extract_vectors.py
keep_line_ten(line) ==
    distance_sq(line.start, line.end) >= Sq(2 * MIN_LINE_LENGTH)

\* the test of the filter loop, with > in place of >=
keep_line_strict(line) ==
    distance_sq(line.start, line.end) > Sq(MIN_LINE_LENGTH)

\* the test of the filter loop: distance(start, end) >= MIN_LINE_LENGTH
keep_line(line) ==
    distance_sq(line.start, line.end) >= Sq(MIN_LINE_LENGTH)

RECURSIVE filter_from(_, _)
filter_from(lines, k) ==
    IF k > Len(lines) THEN <<>>
    ELSE (IF keep_line(lines[k]) THEN <<lines[k]>> ELSE <<>>) \o filter_from(lines, k + 1)

\* Step 1 of clean_lines
filter_lines(lines) == filter_from(lines, 1)

----------------------------------------------------------------------------
(* extractor.py: merge_collinear_segments *)

\* segments = [[line[0], line[1], line[2], False] for line in lines]
to_segments(lines) ==
    [k \in 1..Len(lines) |->
        [start |-> lines[k].start, end |-> lines[k].end,
         width |-> lines[k].width, flag |-> FALSE]]

\* `if seg1[3]: continue`, with the test left out
seed_skipped_never(seg1) == FALSE

\* `if seg1[3]: continue` of the outer loop
seed_skipped(seg1) == seg1.flag

\* `if i == j: continue`, a consumed segment being scanned again
scan_skipped_self(a, b, seg2) == a = b

\* `if i == j or seg2[3]: continue` of the inner loop
scan_skipped(a, b, seg2) == a = b \/ seg2.flag

\* merge_possible with <= in place of <
merge_possible_le(cs, ce, start2, end2) ==
    \E p1 \in {cs, ce} : \E p2 \in {start2, end2} :
        distance_sq(p1, p2) <= Sq(MERGE_TOLERANCE)

\* merge_possible: some distance(p1, p2) < MERGE_TOLERANCE, p1 an endpoint of
\* the current segment and p2 one of seg2
merge_possible(cs, ce, start2, end2) ==
    \E p1 \in {cs, ce} : \E p2 \in {start2, end2} :
        distance_sq(p1, p2) < Sq(MERGE_TOLERANCE)

\* `if d > max_dist`, with >= in place of >
longer_or_equal(d, max_dist) == d >= max_dist

\* `if d > max_dist` (both squared)
longer(d, max_dist) == d > max_dist

\* the double loop over all_points, pair number k (0-based, row-major)
RECURSIVE farthest_from(_, _, _)
farthest_from(all_points, k, best) ==
    IF k = Len(all_points) * Len(all_points) THEN best
    ELSE LET p1 == all_points[(k \div Len(all_points)) + 1]
             p2 == all_points[(k % Len(all_points)) + 1]
             d == distance_sq(p1, p2)
         IN  farthest_from(all_points, k + 1,
                           IF longer(d, best.max_dist)
                           THEN [max_dist |-> d, new_start |-> p1, new_end |-> p2]
                           ELSE best)

\* the merge joined at the second pair of points instead of the farthest pair
farthest_pair_inner(cs, ce, start2, end2) ==
    [max_dist |-> distance_sq(ce, start2), new_start |-> ce, new_end |-> start2]

\* the merge taken as the corners of the box round the four points
farthest_pair_bbox(cs, ce, start2, end2) ==
    LET lo(a, b) == IF a < b THEN a ELSE b
        hi(a, b) == IF a > b THEN a ELSE b
        p == <<lo(lo(cs[1], ce[1]), lo(start2[1], end2[1])),
               lo(lo(cs[2], ce[2]), lo(start2[2], end2[2]))>>
        q == <<hi(hi(cs[1], ce[1]), hi(start2[1], end2[1])),
               hi(hi(cs[2], ce[2]), hi(start2[2], end2[2]))>>
    IN  [max_dist |-> distance_sq(p, q), new_start |-> p, new_end |-> q]

\* "find the two farthest points": max_dist = 0, new_start / new_end = current
farthest_pair(cs, ce, start2, end2) ==
    farthest_from(<<cs, ce, start2, end2>>, 0,
                  [max_dist |-> 0, new_start |-> cs, new_end |-> ce])

\* the width of the emitted segment taken from seg2 of the last scan (width2)
merged_width_w2(segs, a) == segs[Len(segs)].width

\* merged.append((current_start, current_end, width1)): width1 = seg1[2]
merged_width(segs, a) == segs[a].width

\* `changed = True` after a merge, with the assignment lost
changed_after_merge_lost == FALSE

\* `changed = True` after a merge
changed_after_merge == TRUE

----------------------------------------------------------------------------
(* extractor.py: generate_snap_points *)

\* the first loop: start, end, midpoint of each line
RECURSIVE endpoint_candidates(_, _)
endpoint_candidates(lines, k) ==
    IF k > Len(lines) THEN <<>>
    ELSE <<[type |-> "endpoint", coords |-> FracOf(lines[k].start)],
           [type |-> "endpoint", coords |-> FracOf(lines[k].end)],
           [type |-> "midpoint", coords |-> midpoint(lines[k].start, lines[k].end)]>>
         \o endpoint_candidates(lines, k + 1)

\* `if i >= j: continue`, skipping only the pair of a line with itself
pair_skipped_self(a, b) == a = b

\* `if i >= j: continue`
pair_skipped(a, b) == a >= b

\* the double loop over lines, pair number k (0-based, row-major)
RECURSIVE intersection_candidates(_, _)
intersection_candidates(lines, k) ==
    IF k >= Len(lines) * Len(lines) THEN <<>>
    ELSE LET a == (k \div Len(lines)) + 1
             b == (k % Len(lines)) + 1
             intersection == line_intersection(<<lines[a].start, lines[a].end>>,
                                               <<lines[b].start, lines[b].end>>)
         IN  (IF ~pair_skipped(a, b) /\ intersection # None
              THEN <<[type |-> "intersection", coords |-> intersection]>>
              ELSE <<>>)
             \o intersection_candidates(lines, k + 1)

\* snap_points before deduplication
snap_candidates(lines) ==
    endpoint_candidates(lines, 1) \o intersection_candidates(lines, 0)

\* the types of all candidates within the tolerance of coord
types_near(cands, coord) ==
    {cands[k].type : k \in {m \in 1..Len(cands) :
        frac_distance_lt(cands[m].coords, coord, DEDUPE_TOLERANCE)}}

\* the preference with endpoint before intersection
point_type_endpointFirst(types) ==
    IF "endpoint" \in types THEN "endpoint"
    ELSE IF "intersection" \in types THEN "intersection"
    ELSE "midpoint"

\* prefer intersection > endpoint > midpoint
point_type(types) ==
    IF "intersection" \in types THEN "intersection"
    ELSE IF "endpoint" \in types THEN "endpoint"
    ELSE "midpoint"

\* unique_points
unique_points(cands) ==
    LET all_coords == [k \in 1..Len(cands) |-> cands[k].coords]
        unique_coords == dedupe_points(all_coords, DEDUPE_TOLERANCE)
    IN  [k \in 1..Len(unique_coords) |->
            [type |-> point_type(types_near(cands, unique_coords[k])),
             coords |-> unique_coords[k]]]

----------------------------------------------------------------------------
(* extractor.py: assess_quality and the result of extract_page_vectors *)

GOOD_CLEANED == 50
GOOD_SNAP == 100
MEDIUM_CLEANED == 20
MEDIUM_SNAP == 40

\* assess_quality with > in place of >=
assess_quality_strict(raw_count, cleaned_count, snap_count) ==
    IF cleaned_count = 0 THEN "none"
    ELSE IF cleaned_count > GOOD_CLEANED /\ snap_count > GOOD_SNAP THEN "good"
    ELSE IF cleaned_count > MEDIUM_CLEANED /\ snap_count > MEDIUM_SNAP THEN "medium"
    ELSE "poor"

\* assess_quality without the test cleaned_count == 0
assess_quality_noNone(raw_count, cleaned_count, snap_count) ==
    IF cleaned_count >= GOOD_CLEANED /\ snap_count >= GOOD_SNAP THEN "good"
    ELSE IF cleaned_count >= MEDIUM_CLEANED /\ snap_count >= MEDIUM_SNAP THEN "medium"
    ELSE "poor"

assess_quality(raw_count, cleaned_count, snap_count) ==
    IF cleaned_count = 0 THEN "none"
    ELSE IF cleaned_count >= GOOD_CLEANED /\ snap_count >= GOOD_SNAP THEN "good"
    ELSE IF cleaned_count >= MEDIUM_CLEANED /\ snap_count >= MEDIUM_SNAP THEN "medium"
    ELSE "poor"

\* api/extract_vectors.py: cleaned_count / raw_count if raw_count > 0 else 0,
\* as a fraction <<numerator, denominator>>
survival_rate(raw_count, cleaned_count) ==
    IF raw_count > 0 THEN <<cleaned_count, raw_count>> ELSE <<0, 1>>

\* rate > num / den
rate_above(rate, num, den) == rate[1] * den > num * rate[2]

\* api/extract_vectors.py assess_quality with >= in place of >
assess_quality_A_ge(raw_count, cleaned_count) ==
    IF cleaned_count = 0 THEN "none"
    ELSE LET rate == survival_rate(raw_count, cleaned_count)
         IN  IF ~rate_above(<<7, 10>>, rate[1], rate[2]) /\ cleaned_count >= 50 THEN "good"
             ELSE IF ~rate_above(<<3, 10>>, rate[1], rate[2]) /\ cleaned_count >= 20
                  THEN "medium"
             ELSE "poor"

\* api/extract_vectors.py assess_quality (the ratio policy)
assess_quality_A(raw_count, cleaned_count) ==
    IF cleaned_count = 0 THEN "none"
    ELSE LET rate == survival_rate(raw_count, cleaned_count)
         IN  IF rate_above(rate, 7, 10) /\ cleaned_count > 50 THEN "good"
             ELSE IF rate_above(rate, 3, 10) /\ cleaned_count > 20 THEN "medium"
             ELSE "poor"

\* the counts with raw_count taken after cleaning
page_counts_cleanedAsRaw(raw_lines, cleaned_lines, snaps) ==
    [raw_count |-> Len(cleaned_lines), cleaned_count |-> Len(cleaned_lines),
     snap_count |-> Len(snaps)]

\* raw_count, cleaned_count, snap_count of extract_page_vectors
page_counts(raw_lines, cleaned_lines, snaps) ==
    [raw_count |-> Len(raw_lines), cleaned_count |-> Len(cleaned_lines),
     snap_count |-> Len(snaps)]

\* the dictionary extract_page_vectors returns
page_result(raw_lines, cleaned_lines, snaps) ==
    LET counts == page_counts(raw_lines, cleaned_lines, snaps)
    IN  [lines |-> [k \in 1..Len(cleaned_lines) |->
                      [start |-> cleaned_lines[k].start, end |-> cleaned_lines[k].end,
                       width |-> cleaned_lines[k].width]],
         snap_points |-> [k \in 1..Len(snaps) |->
                            [type |-> snaps[k].type, coords |-> snaps[k].coords]],
         quality |-> assess_quality(counts.raw_count, counts.cleaned_count,
                                    counts.snap_count),
         stats |-> counts]

----------------------------------------------------------------------------
(* The raw segments handed to clean_lines *)

Seg(x1, y1, x2, y2, w) == [start |-> <<x1, y1>>, end |-> <<x2, y2>>, width |-> w]

\* a long horizontal run with abutting, near, inner and crossing neighbours,
\* a slightly rising line next to it, and two segments below the threshold
SegA == Seg(0, 0, 12, 0, 1)
SegAbut == Seg(12, 0, 20, 0, 2)
SegNear == Seg(22, 0, 30, 0, 1)
SegUp == Seg(12, 0, 12, 5, 1)
SegInner == Seg(3, 0, 9, 0, 2)
SegHead == Seg(1, 0, 6, 0, 1)
SegRise == Seg(13, 2, 33, 3, 1)
SegHigh == Seg(33, 2, 38, 2, 2)
SegShort == Seg(0, 0, 3, 0, 1)
SegPoint == Seg(5, 5, 5, 5, 2)
SegCross == Seg(6, -3, 6, 3, 1)

Pool == {SegA, SegAbut, SegNear, SegUp, SegInner, SegHead, SegRise, SegHigh,
         SegShort, SegPoint, SegCross}

RawLists == UNION {[1..n -> Pool] : n \in 0..MaxLen}

\* the corners of three squares of side 5, 10 and 5 (turned), in order round
\* the square
SquareCorners ==
    {<<<<0, 0>>, <<5, 0>>, <<5, 5>>, <<0, 5>>>>,
     <<<<0, 0>>, <<10, 0>>, <<10, 10>>, <<0, 10>>>>,
     <<<<0, 0>>, <<4, 3>>, <<1, 7>>, <<-3, 4>>>>}

\* edge k of a square, from corner k to the next corner or the other way
SquareEdge(c, k, flip) ==
    LET a == c[k]
        b == c[(k % Len(c)) + 1]
    IN  IF flip THEN Seg(b[1], b[2], a[1], a[2], 1) ELSE Seg(a[1], a[2], b[1], b[2], 1)

\* the four edges of a square in every order and every direction
SquareLists ==
    {[k \in 1..4 |-> SquareEdge(c, perm[k], flip[k])] :
        c \in SquareCorners,
        perm \in {f \in [1..4 -> 1..4] : \A a \in 1..4 : \A b \in 1..4 : f[a] = f[b] => a = b},
        flip \in [1..4 -> BOOLEAN]}

\* the same segments in the opposite order
reversed(lines) == [k \in 1..Len(lines) |-> lines[Len(lines) + 1 - k]]

NoPoint == <<0, 0>>

NoEv == [kind |-> "none", i |-> 0, j |-> 0, cur |-> <<>>, seg |-> <<>>,
         new |-> <<>>, passes |-> 0]

Zeros(n) == [k \in 1..n |-> 0]

NoResult == [lines |-> <<>>, snap_points |-> <<>>, quality |-> "unset",
             stats |-> [raw_count |-> 0, cleaned_count |-> 0, snap_count |-> 0]]

\* no request, no file and no job
SemIdle ==
    /\ requests = <<>>
    /\ permits = <<>>
    /\ sem_ev = <<>>

SyncIdle ==
    /\ s_req = <<>>
    /\ s_pc = "off"
    /\ tmp_path = <<>>
    /\ files = {}
    /\ response = <<>>

JobsIdle ==
    /\ jobs = <<>>
    /\ tasks = <<>>
    /\ now = 0
    /\ created = <<>>
    /\ observed = <<>>
    /\ job_ev = <<>>

SvcIdle == SemIdle /\ SyncIdle /\ JobsIdle

GeomIdle ==
    /\ g_l1 = <<>>
    /\ g_l2 = <<>>
    /\ g_op = "off"
    /\ g_ret = <<>>
    /\ f_points = <<>>
    /\ f_counts = <<>>

Init ==
    /\ raw \in RawLists \cup SquareLists
    /\ input0 = raw
    /\ pc = "start"
    /\ run = 1
    /\ firstOut = <<>>
    /\ filtered = <<>>
    /\ segments = <<>>
    /\ merged = <<>>
    /\ i = 0
    /\ j = 0
    /\ current_start = NoPoint
    /\ current_end = NoPoint
    /\ changed = FALSE
    /\ emitCount = <<>>
    /\ absorbCount = <<>>
    /\ ev = NoEv
    /\ candidates = <<>>
    /\ snap_points = <<>>
    /\ result = NoResult
    /\ GeomIdle
    /\ SvcIdle

\* clean_lines up to the call of merge_collinear_segments and that function's
\* first lines: `if not lines: return []`, the filter loop,
\* `if len(lines) <= 1: return lines`, the construction of segments
CleanLinesFilter ==
    /\ pc = "start"
    /\ LET f == IF raw = <<>> THEN <<>> ELSE filter_lines(raw)
       IN  /\ filtered' = f
           /\ absorbCount' = Zeros(Len(f))
           /\ IF Len(f) <= 1
              THEN /\ merged' = f
                   /\ segments' = <<>>
                   /\ emitCount' = [k \in 1..Len(f) |-> 1]
                   /\ i' = 0
                   /\ pc' = "done"
              ELSE /\ merged' = <<>>
                   /\ segments' = to_segments(f)
                   /\ emitCount' = Zeros(Len(f))
                   /\ i' = 1
                   /\ pc' = "seed"
    /\ ev' = [NoEv EXCEPT !.kind = "filter"]
    /\ UNCHANGED <<raw, input0, run, firstOut, j, current_start, current_end,
                   changed, candidates, snap_points, result, geomVars, svcVars>>

\* the outer loop is exhausted: return merged
SeedDone ==
    /\ pc = "seed"
    /\ i > Len(segments)
    /\ pc' = "done"
    /\ ev' = [NoEv EXCEPT !.passes = ev.passes, !.kind = "return"]
    /\ UNCHANGED <<raw, input0, run, firstOut, filtered, segments, merged, i, j,
                   current_start, current_end, changed, emitCount, absorbCount,
                   candidates, snap_points, result, geomVars, svcVars>>

\* `if seg1[3]: continue`
SeedSkip ==
    /\ pc = "seed"
    /\ i <= Len(segments)
    /\ seed_skipped(segments[i])
    /\ i' = i + 1
    /\ ev' = [NoEv EXCEPT !.passes = ev.passes, !.kind = "seed_skip", !.i = i]
    /\ UNCHANGED <<raw, input0, pc, run, firstOut, filtered, segments, merged, j,
                   current_start, current_end, changed, emitCount, absorbCount,
                   candidates, snap_points, result, geomVars, svcVars>>

\* a seed: current_start, current_end = start1, end1; changed = True
SeedTake ==
    /\ pc = "seed"
    /\ i <= Len(segments)
    /\ ~seed_skipped(segments[i])
    /\ current_start' = segments[i].start
    /\ current_end' = segments[i].end
    /\ changed' = TRUE
    /\ pc' = "while"
    /\ ev' = [NoEv EXCEPT !.passes = ev.passes, !.kind = "seed", !.i = i,
                          !.new = <<segments[i].start, segments[i].end>>]
    /\ UNCHANGED <<raw, input0, run, firstOut, filtered, segments, merged, i, j,
                   emitCount, absorbCount, candidates, snap_points, result, geomVars, svcVars>>

\* `while changed:` taken: changed = False and the inner loop starts
WhileEnter ==
    /\ pc = "while"
    /\ changed
    /\ changed' = FALSE
    /\ j' = 1
    /\ pc' = "scan"
    /\ ev' = [NoEv EXCEPT !.passes = ev.passes + 1, !.kind = "pass", !.i = i]
    /\ UNCHANGED <<raw, input0, run, firstOut, filtered, segments, merged, i,
                   current_start, current_end, emitCount, absorbCount,
                   candidates, snap_points, result, geomVars, svcVars>>

\* `while changed:` left: seg1[3] = True; merged.append(...)
Emit ==
    /\ pc = "while"
    /\ ~changed
    /\ segments' = [segments EXCEPT ![i].flag = TRUE]
    /\ merged' = Append(merged, [start |-> current_start, end |-> current_end,
                                 width |-> merged_width(segments, i)])
    /\ emitCount' = [emitCount EXCEPT ![i] = @ + 1]
    /\ i' = i + 1
    /\ pc' = "seed"
    /\ ev' = [NoEv EXCEPT !.passes = ev.passes, !.kind = "emit", !.i = i,
                          !.cur = <<current_start, current_end>>]
    /\ UNCHANGED <<raw, input0, run, firstOut, filtered, j, current_start,
                   current_end, changed, absorbCount, candidates, snap_points,
                   result, geomVars, svcVars>>

\* the inner loop is exhausted: back to the test of the while loop
ScanEnd ==
    /\ pc = "scan"
    /\ j > Len(segments)
    /\ pc' = "while"
    /\ ev' = [NoEv EXCEPT !.passes = ev.passes, !.kind = "pass_end", !.i = i]
    /\ UNCHANGED <<raw, input0, run, firstOut, filtered, segments, merged, i, j,
                   current_start, current_end, changed, emitCount, absorbCount,
                   candidates, snap_points, result, geomVars, svcVars>>

\* `if i == j or seg2[3]: continue`
ScanSkip ==
    /\ pc = "scan"
    /\ j <= Len(segments)
    /\ scan_skipped(i, j, segments[j])
    /\ j' = j + 1
    /\ ev' = [NoEv EXCEPT !.passes = ev.passes, !.kind = "scan_skip", !.i = i, !.j = j]
    /\ UNCHANGED <<raw, input0, pc, run, firstOut, filtered, segments, merged, i,
                   current_start, current_end, changed, emitCount, absorbCount,
                   candidates, snap_points, result, geomVars, svcVars>>

\* a scanned segment that is not absorbed: `if not lines_collinear(...): continue`
\* or merge_possible stays False
ScanKeep ==
    /\ pc = "scan"
    /\ j <= Len(segments)
    /\ ~scan_skipped(i, j, segments[j])
    /\ \/ ~lines_collinear(<<current_start, current_end>>,
                           <<segments[j].start, segments[j].end>>)
       \/ ~merge_possible(current_start, current_end, segments[j].start, segments[j].end)
    /\ j' = j + 1
    /\ ev' = [NoEv EXCEPT !.passes = ev.passes, !.kind = "scan_keep", !.i = i, !.j = j,
                          !.cur = <<current_start, current_end>>,
                          !.seg = <<segments[j].start, segments[j].end>>,
                          !.new = <<current_start, current_end>>]
    /\ UNCHANGED <<raw, input0, pc, run, firstOut, filtered, segments, merged, i,
                   current_start, current_end, changed, emitCount, absorbCount,
                   candidates, snap_points, result, geomVars, svcVars>>

\* a scanned segment that is absorbed: the farthest pair becomes the current
\* segment, seg2[3] = True, changed = True
ScanMerge ==
    /\ pc = "scan"
    /\ j <= Len(segments)
    /\ ~scan_skipped(i, j, segments[j])
    /\ lines_collinear(<<current_start, current_end>>,
                       <<segments[j].start, segments[j].end>>)
    /\ merge_possible(current_start, current_end, segments[j].start, segments[j].end)
    /\ LET far == farthest_pair(current_start, current_end,
                                segments[j].start, segments[j].end)
       IN  /\ current_start' = far.new_start
           /\ current_end' = far.new_end
           /\ ev' = [NoEv EXCEPT !.passes = ev.passes, !.kind = "scan_merge", !.i = i, !.j = j,
                                 !.cur = <<current_start, current_end>>,
                                 !.seg = <<segments[j].start, segments[j].end>>,
                                 !.new = <<far.new_start, far.new_end>>]
    /\ segments' = [segments EXCEPT ![j].flag = TRUE]
    /\ absorbCount' = [absorbCount EXCEPT ![j] = @ + 1]
    /\ changed' = changed_after_merge
    /\ j' = j + 1
    /\ UNCHANGED <<raw, input0, pc, run, firstOut, filtered, merged, i, emitCount,
                   candidates, snap_points, result, geomVars, svcVars>>

\* generate_snap_points(cleaned_lines)
GenerateSnapPoints ==
    /\ pc = "done"
    /\ candidates' = snap_candidates(merged)
    /\ snap_points' = unique_points(snap_candidates(merged))
    /\ pc' = "snapped"
    /\ ev' = [NoEv EXCEPT !.passes = ev.passes, !.kind = "snap"]
    /\ UNCHANGED <<raw, input0, run, firstOut, filtered, segments, merged, i, j,
                   current_start, current_end, changed, emitCount, absorbCount,
                   result, geomVars, svcVars>>

\* the cleaned lines of the first run are handed to clean_lines as raw input
\* (lines that came back as they went in would repeat the first run)
Refeed ==
    /\ pc = "snapped"
    /\ run = 1
    /\ merged # raw
    /\ run' = 2
    /\ firstOut' = merged
    /\ raw' = merged
    /\ input0' = merged
    /\ pc' = "start"
    /\ filtered' = <<>>
    /\ segments' = <<>>
    /\ merged' = <<>>
    /\ i' = 0
    /\ j' = 0
    /\ current_start' = NoPoint
    /\ current_end' = NoPoint
    /\ changed' = FALSE
    /\ emitCount' = <<>>
    /\ absorbCount' = <<>>
    /\ ev' = NoEv
    /\ candidates' = <<>>
    /\ snap_points' = <<>>
    /\ result' = NoResult
    /\ UNCHANGED <<geomVars, svcVars>>

\* the raw lines of the first run, all of which reached the merge, are
\* cleaned again in the opposite order (when that is another list)
Reorder ==
    /\ pc = "snapped"
    /\ run = 1
    /\ filtered = input0
    /\ reversed(input0) # input0
    /\ run' = 3
    /\ firstOut' = merged
    /\ raw' = reversed(input0)
    /\ input0' = reversed(input0)
    /\ pc' = "start"
    /\ filtered' = <<>>
    /\ segments' = <<>>
    /\ merged' = <<>>
    /\ i' = 0
    /\ j' = 0
    /\ current_start' = NoPoint
    /\ current_end' = NoPoint
    /\ changed' = FALSE
    /\ emitCount' = <<>>
    /\ absorbCount' = <<>>
    /\ ev' = NoEv
    /\ candidates' = <<>>
    /\ snap_points' = <<>>
    /\ result' = NoResult
    /\ UNCHANGED <<geomVars, svcVars>>

\* extract_page_vectors after generate_snap_points: the counts, the quality
\* and the returned dictionary
ReturnResult ==
    /\ pc = "snapped"
    /\ result' = page_result(raw, merged, snap_points)
    /\ pc' = "returned"
    /\ ev' = [NoEv EXCEPT !.passes = ev.passes, !.kind = "result"]
    /\ UNCHANGED <<raw, input0, run, firstOut, filtered, segments, merged, i, j,
                   current_start, current_end, changed, emitCount, absorbCount,
                   candidates, snap_points, geomVars, svcVars>>

Next ==
    \/ CleanLinesFilter
    \/ SeedDone
    \/ SeedSkip
    \/ SeedTake
    \/ WhileEnter
    \/ Emit
    \/ ScanEnd
    \/ ScanSkip
    \/ ScanKeep
    \/ ScanMerge
    \/ GenerateSnapPoints
    \/ Refeed
    \/ Reorder
    \/ ReturnResult

Spec == Init /\ [][Next]_vars

----------------------------------------------------------------------------
(* Calls of the geometry functions on their own *)

GeomPoints == {<<x, y>> : x \in {0, 5, 10, 20}, y \in {0, 1, 3, 5}}

GeomLines == GeomPoints \X GeomPoints

CleanIdle ==
    /\ raw = <<>>
    /\ input0 = <<>>
    /\ pc = "off"
    /\ run = 0
    /\ firstOut = <<>>
    /\ filtered = <<>>
    /\ segments = <<>>
    /\ merged = <<>>
    /\ i = 0
    /\ j = 0
    /\ current_start = NoPoint
    /\ current_end = NoPoint
    /\ changed = FALSE
    /\ emitCount = <<>>
    /\ absorbCount = <<>>
    /\ ev = NoEv
    /\ candidates = <<>>
    /\ snap_points = <<>>
    /\ result = NoResult

GeomInit ==
    /\ g_l1 \in GeomLines
    /\ g_l2 \in GeomLines
    /\ g_op = "idle"
    /\ g_ret = <<>>
    /\ f_points = <<>>
    /\ f_counts = <<>>
    /\ CleanIdle
    /\ SvcIdle

CallLinesCollinear ==
    /\ g_op = "idle"
    /\ g_ret' = lines_collinear(g_l1, g_l2)
    /\ g_op' = "lines_collinear"
    /\ UNCHANGED <<g_l1, g_l2, f_points, f_counts, cleanVars, svcVars>>

CallLineIntersection ==
    /\ g_op = "idle"
    /\ g_ret' = line_intersection(g_l1, g_l2)
    /\ g_op' = "line_intersection"
    /\ UNCHANGED <<g_l1, g_l2, f_points, f_counts, cleanVars, svcVars>>

GeomNext ==
    \/ CallLinesCollinear
    \/ CallLineIntersection

SpecGeom == GeomInit /\ [][GeomNext]_vars

----------------------------------------------------------------------------
(* Calls of dedupe_points and assess_quality on their own *)

MaxPts == 4

\* points handed to dedupe_points, as fractions <<X, Y, D>>: a chain one
\* apart on the x axis, (0.5, 0.5), and a far group round (5, 5)
PointPool ==
    {<<0, 0, 1>>, <<1, 0, 1>>, <<2, 0, 1>>, <<3, 0, 1>>, <<1, 1, 2>>,
     <<5, 5, 1>>, <<6, 5, 1>>, <<53, 53, 10>>}

PointLists == UNION {[1..n -> PointPool] : n \in 0..MaxPts}

\* counts round the thresholds of the two assess_quality functions, with
\* pairs whose ratio is 0.3 or 0.7 or next to it
CountValues ==
    {0, 1, 19, 20, 21, 30, 39, 40, 41, 49, 50, 51, 70, 72, 73, 99, 100, 101}

CountTriples == CountValues \X CountValues \X CountValues

FnInit ==
    /\ \/ f_points \in PointLists /\ f_counts = <<0, 0, 0>>
       \/ f_points = <<>> /\ f_counts \in CountTriples
    /\ g_l1 = <<>>
    /\ g_l2 = <<>>
    /\ g_op = "idle"
    /\ g_ret = <<>>
    /\ CleanIdle
    /\ SvcIdle

CallDedupePoints ==
    /\ g_op = "idle"
    /\ g_ret' = dedupe_points(f_points, DEDUPE_TOLERANCE)
    /\ g_op' = "dedupe_points"
    /\ UNCHANGED <<g_l1, g_l2, f_points, f_counts, cleanVars, svcVars>>

CallAssessQuality ==
    /\ g_op = "idle"
    /\ g_ret' = assess_quality(f_counts[1], f_counts[2], f_counts[3])
    /\ g_op' = "assess_quality"
    /\ UNCHANGED <<g_l1, g_l2, f_points, f_counts, cleanVars, svcVars>>

\* api/extract_vectors.py: assess_quality(raw_count, cleaned_count)
CallAssessQualityA ==
    /\ g_op = "idle"
    /\ g_ret' = assess_quality_A(f_counts[1], f_counts[2])
    /\ g_op' = "assess_quality_A"
    /\ UNCHANGED <<g_l1, g_l2, f_points, f_counts, cleanVars, svcVars>>

FnNext ==
    \/ CallDedupePoints
    \/ CallAssessQuality
    \/ CallAssessQualityA

SpecFn == FnInit /\ [][FnNext]_vars

----------------------------------------------------------------------------
(* Properties of clean_lines and merge_collinear_segments, under Spec *)

Finished == pc \in {"done", "snapped"}

\* the k-th smallest element of a set of numbers
Nth(S, k) == CHOOSE x \in S : Cardinality({y \in S : y < x}) = k - 1

LongEnough(p, q) == distance_sq(p, q) >= MIN_LINE_LENGTH * MIN_LINE_LENGTH

\* some endpoint of c is nearer than MERGE_TOLERANCE to some endpoint of s
EndpointsNear(c, s) ==
    \/ distance_sq(c[1], s[1]) < MERGE_TOLERANCE * MERGE_TOLERANCE
    \/ distance_sq(c[1], s[2]) < MERGE_TOLERANCE * MERGE_TOLERANCE
    \/ distance_sq(c[2], s[1]) < MERGE_TOLERANCE * MERGE_TOLERANCE
    \/ distance_sq(c[2], s[2]) < MERGE_TOLERANCE * MERGE_TOLERANCE

\* C1: the filter keeps exactly the raw segments of length >= MIN_LINE_LENGTH,
\* in input order and unchanged, and leaves the input list as it was.
C1_FilterKeepsLongLines ==
    pc # "start" =>
        LET kept == {k \in 1..Len(raw) : LongEnough(raw[k].start, raw[k].end)}
        IN  /\ Len(filtered) = Cardinality(kept)
            /\ \A m \in 1..Len(filtered) : filtered[m] = raw[Nth(kept, m)]
            /\ raw = input0

\* C1 witness: three raw segments, one of length exactly 5 kept and one dropped
C1_Witness ==
    /\ pc # "start"
    /\ run = 1
    /\ Len(raw) = MaxLen
    /\ Len(filtered) = Len(raw) - 1
    /\ \E m \in 1..Len(filtered) :
          distance_sq(filtered[m].start, filtered[m].end) = MIN_LINE_LENGTH * MIN_LINE_LENGTH

\* C2: every segment clean_lines returns has start # end and length >= 5,
\* whether it was merged or not; so has the segment under construction.
C2_OutputLongEnough ==
    /\ Finished =>
          \A k \in 1..Len(merged) :
              /\ merged[k].start # merged[k].end
              /\ LongEnough(merged[k].start, merged[k].end)
    /\ pc \in {"while", "scan"} =>
          /\ current_start # current_end
          /\ LongEnough(current_start, current_end)

\* C2 witness: an output segment built by two merge steps
C2_Witness ==
    /\ pc = "done"
    /\ run = 1
    /\ Len(merged) = 1
    /\ \E k \in 1..Len(absorbCount) : \E m \in 1..Len(absorbCount) :
          k # m /\ absorbCount[k] = 1 /\ absorbCount[m] = 1

\* C3: a scanned, unconsumed segment s is absorbed into the current segment c
\* iff lines_collinear(c, s) and some endpoint of c is nearer than 3.0 to some
\* endpoint of s.
C3_AbsorbedIffCollinearAndNear ==
    ev.kind \in {"scan_keep", "scan_merge"} =>
        /\ ev.i # ev.j
        /\ (ev.kind = "scan_merge") <=>
              (lines_collinear(ev.cur, ev.seg) /\ EndpointsNear(ev.cur, ev.seg))

\* C3 witness: a collinear segment overlapping the current one whose endpoints
\* are all 3.0 or more from the current endpoints is scanned and not absorbed
C3_Witness ==
    /\ ev.kind = "scan_keep"
    /\ lines_collinear(ev.cur, ev.seg)
    /\ ev.cur = <<SegA.start, SegA.end>>
    /\ ev.seg = <<SegInner.start, SegInner.end>>

\* C4: a merge step sets the current endpoints to two of the four points at the
\* maximum pairwise distance; the length never decreases; with no pair strictly
\* longer than the current segment the endpoints stay, and the absorbed segment
\* is consumed all the same.
C4_MergeTakesFarthestPair ==
    ev.kind = "scan_merge" =>
        LET pts == {ev.cur[1], ev.cur[2], ev.seg[1], ev.seg[2]}
            len == distance_sq(ev.new[1], ev.new[2])
        IN  /\ ev.new[1] \in pts
            /\ ev.new[2] \in pts
            /\ \A p \in pts : \A q \in pts : distance_sq(p, q) <= len
            /\ len >= distance_sq(ev.cur[1], ev.cur[2])
            /\ (\A p \in pts : \A q \in pts :
                    distance_sq(p, q) <= distance_sq(ev.cur[1], ev.cur[2]))
                  => ev.new = ev.cur
            /\ <<current_start, current_end>> = ev.new
            /\ segments[ev.j].flag

\* C4 witness: a segment lying inside the current one is absorbed and the
\* endpoints stay
C4_Witness ==
    /\ ev.kind = "scan_merge"
    /\ ev.new = ev.cur
    /\ ev.seg # ev.cur
    /\ segments[ev.j].flag

\* C5: every input segment of the merge is emitted exactly once as a seed or
\* absorbed exactly once into one seed, never both; the output has one segment
\* per seed and at most as many as the input.
C5_EmittedOrAbsorbedOnce ==
    /\ \A k \in 1..Len(emitCount) : emitCount[k] + absorbCount[k] <= 1
    /\ ev.kind = "seed" => absorbCount[ev.i] = 0 /\ emitCount[ev.i] = 0
    /\ Finished =>
          /\ Len(emitCount) = Len(filtered)
          /\ \A k \in 1..Len(filtered) : emitCount[k] + absorbCount[k] = 1
          /\ Len(merged) = Cardinality({k \in 1..Len(filtered) : emitCount[k] = 1})
          /\ Len(merged) <= Len(filtered)

\* C5 witness: the second of three segments was absorbed, the third was a seed
C5_Witness ==
    /\ pc = "done"
    /\ run = 1
    /\ emitCount = <<1, 0, 1>>
    /\ absorbCount = <<0, 1, 0>>
    /\ Len(merged) = 2

\* C6: when a seed's segment is emitted, no unconsumed segment is collinear
\* with it and has an endpoint within MERGE_TOLERANCE of one of its endpoints.
C6_EmitAtFixedPoint ==
    ev.kind = "emit" =>
        \A k \in 1..Len(segments) :
            ~segments[k].flag =>
                ~(/\ lines_collinear(ev.cur, <<segments[k].start, segments[k].end>>)
                  /\ EndpointsNear(ev.cur, <<segments[k].start, segments[k].end>>))

\* C6 witness: a seed that absorbed a segment is emitted while another segment,
\* collinear with it but too far, is still unconsumed
C6_Witness ==
    /\ ev.kind = "emit"
    /\ \E k \in 1..Len(segments) : absorbCount[k] = 1
    /\ \E k \in 1..Len(segments) :
          /\ ~segments[k].flag
          /\ lines_collinear(ev.cur, <<segments[k].start, segments[k].end>>)

\* C7: cleaning the output of clean_lines again returns as many segments as it
\* was given.
C7_CleaningIdempotent ==
    (run = 2 /\ Finished) => Len(merged) = Len(firstOut)

\* C7 witness of the second run: a first output of two segments cleaned again
C7_SecondRunFinished ==
    /\ run = 2
    /\ Finished
    /\ Len(firstOut) = 2

----------------------------------------------------------------------------
(* Properties of the geometry functions, under SpecGeom *)

\* the direction of a line; a line of length zero counts as pointing along x,
\* the angle atan2(0, 0) = 0
Dir(l) ==
    IF l[1] = l[2] THEN <<1, 0>> ELSE <<l[2][1] - l[1][1], l[2][2] - l[1][2]>>

Cross(a, b) == a[1] * b[2] - a[2] * b[1]

Dot(a, b) == a[1] * b[1] + a[2] * b[2]

Rev(l) == <<l[2], l[1]>>

\* the acute angle between the two lines is at most the angle tolerance
AcuteAngleWithin(l1, l2) ==
    Abs(Cross(Dir(l1), Dir(l2))) * ANGLE_TAN_DEN <= Abs(Dot(Dir(l1), Dir(l2))) * ANGLE_TAN_NUM

\* p is nearer than COLLINEAR_TOLERANCE to the infinite line through l (to the
\* point l when l has length zero)
PerpWithin(p, l) ==
    IF l[1] = l[2]
    THEN distance_sq(p, l[1]) < COLLINEAR_TOLERANCE * COLLINEAR_TOLERANCE
    ELSE Sq(Cross(<<p[1] - l[1][1], p[2] - l[1][2]>>, Dir(l)))
            < COLLINEAR_TOLERANCE * COLLINEAR_TOLERANCE * distance_sq(l[1], l[2])

\* both lines have positive length and lie on one infinite line
OnOneLine(l1, l2) ==
    /\ l1[1] # l1[2]
    /\ l2[1] # l2[2]
    /\ Cross(<<l2[1][1] - l1[1][1], l2[1][2] - l1[1][2]>>, Dir(l1)) = 0
    /\ Cross(<<l2[2][1] - l1[1][1], l2[2][2] - l1[1][2]>>, Dir(l1)) = 0

\* both lines have positive length, are perpendicular and share an endpoint
PerpendicularCorner(l1, l2) ==
    /\ l1[1] # l1[2]
    /\ l2[1] # l2[2]
    /\ Dot(Dir(l1), Dir(l2)) = 0
    /\ {l1[1], l1[2]} \cap {l2[1], l2[2]} # {}

\* C8: lines_collinear(l1, l2) holds iff the folded angle difference is within
\* the tolerance and both endpoints of l2 are nearer than 3.0 to the infinite
\* line through l1; reversing either line does not change the result; it holds
\* for two lines on one infinite line whatever the gap, and fails for
\* perpendicular lines that share an endpoint.
C8_LinesCollinear ==
    g_op = "lines_collinear" =>
        /\ g_ret = (/\ AcuteAngleWithin(g_l1, g_l2)
                    /\ PerpWithin(g_l2[1], g_l1)
                    /\ PerpWithin(g_l2[2], g_l1))
        /\ lines_collinear(Rev(g_l1), g_l2) = g_ret
        /\ lines_collinear(g_l1, Rev(g_l2)) = g_ret
        /\ lines_collinear(Rev(g_l1), Rev(g_l2)) = g_ret
        /\ OnOneLine(g_l1, g_l2) => g_ret
        /\ PerpendicularCorner(g_l1, g_l2) => ~g_ret

\* C8 witness: two segments of one line, pointing in opposite directions and
\* separated by a gap of 5, are collinear
C8_Witness ==
    /\ g_op = "lines_collinear"
    /\ g_l1 = <<<<5, 0>>, <<0, 0>>>>
    /\ g_l2 = <<<<10, 0>>, <<20, 0>>>>
    /\ g_ret = TRUE

\* the side of the line a -> b on which c lies
Orient(a, b, c) == Cross(<<b[1] - a[1], b[2] - a[2]>>, <<c[1] - a[1], c[2] - a[2]>>)

\* the endpoints of m are not strictly on the same side of the line through l
Straddles(l, m) == Orient(l[1], l[2], m[1]) * Orient(l[1], l[2], m[2]) <= 0

Min(a, b) == IF a <= b THEN a ELSE b

Max(a, b) == IF a >= b THEN a ELSE b

\* the fraction f is a point of segment l
FracOnSegment(f, l) ==
    /\ (f[1] - l[1][1] * f[3]) * (l[2][2] - l[1][2])
          = (f[2] - l[1][2] * f[3]) * (l[2][1] - l[1][1])
    /\ Min(l[1][1], l[2][1]) * f[3] <= f[1]
    /\ f[1] <= Max(l[1][1], l[2][1]) * f[3]
    /\ Min(l[1][2], l[2][2]) * f[3] <= f[2]
    /\ f[2] <= Max(l[1][2], l[2][2]) * f[3]

\* the two direction vectors are not parallel
Crossing(l1, l2) ==
    Cross(<<l1[2][1] - l1[1][1], l1[2][2] - l1[1][2]>>,
          <<l2[2][1] - l2[1][1], l2[2][2] - l2[1][2]>>) # 0

\* C9: line_intersection returns a point iff the direction vectors are not
\* parallel and the crossing of the infinite lines lies on both segments (t and
\* u in [0, 1]); the point returned is on both segments; parallel or coincident
\* segments give None; an endpoint of one segment lying on the other is
\* returned as the touching point.
C9_LineIntersection ==
    g_op = "line_intersection" =>
        /\ (g_ret # None) <=>
              (Crossing(g_l1, g_l2) /\ Straddles(g_l1, g_l2) /\ Straddles(g_l2, g_l1))
        /\ g_ret # None =>
              /\ Len(g_ret) = 3
              /\ g_ret[3] > 0
              /\ FracOnSegment(g_ret, g_l1)
              /\ FracOnSegment(g_ret, g_l2)
        /\ ~Crossing(g_l1, g_l2) => g_ret = None
        /\ \A e \in {g_l2[1], g_l2[2]} :
              (Crossing(g_l1, g_l2) /\ FracOnSegment(FracOf(e), g_l1)) => g_ret = FracOf(e)
        /\ \A e \in {g_l1[1], g_l1[2]} :
              (Crossing(g_l1, g_l2) /\ FracOnSegment(FracOf(e), g_l2)) => g_ret = FracOf(e)

\* C9 witness: a T-junction, the vertical segment ending on the horizontal one
C9_Witness ==
    /\ g_op = "line_intersection"
    /\ g_l1 = <<<<0, 5>>, <<10, 5>>>>
    /\ g_l2 = <<<<5, 0>>, <<5, 5>>>>
    /\ g_ret = <<5, 5, 1>>

----------------------------------------------------------------------------
(* Properties of generate_snap_points, under Spec *)

\* the pairs a < b of lines with an intersection
MeetingPairs(lines) ==
    {pr \in (1..Len(lines)) \X (1..Len(lines)) :
        /\ pr[1] < pr[2]
        /\ line_intersection(<<lines[pr[1]].start, lines[pr[1]].end>>,
                             <<lines[pr[2]].start, lines[pr[2]].end>>) # None}

\* the position of a pair among the pairs, outer index first
PairRank(P, pr) ==
    1 + Cardinality({q \in P : q[1] < pr[1] \/ (q[1] = pr[1] /\ q[2] < pr[2])})

\* the fraction f is the arithmetic mean of the points p and q
IsMean(f, p, q) ==
    /\ f[3] > 0
    /\ 2 * f[1] = (p[1] + q[1]) * f[3]
    /\ 2 * f[2] = (p[2] + q[2]) * f[3]

\* C10: before deduplication the candidates are start, end and midpoint of each
\* of the n cleaned segments in segment order, then one intersection for each
\* pair a < b with an intersection, in the order of the pairs: 3n candidates
\* plus one per such pair, for every n.
C10_SnapCandidates ==
    pc = "snapped" =>
        LET n == Len(merged)
            P == MeetingPairs(merged)
        IN  /\ Len(candidates) = 3 * n + Cardinality(P)
            /\ \A k \in 1..n :
                  /\ candidates[3 * k - 2] = [type |-> "endpoint", coords |-> FracOf(merged[k].start)]
                  /\ candidates[3 * k - 1] = [type |-> "endpoint", coords |-> FracOf(merged[k].end)]
                  /\ candidates[3 * k].type = "midpoint"
                  /\ IsMean(candidates[3 * k].coords, merged[k].start, merged[k].end)
            /\ \A pr \in P :
                  candidates[3 * n + PairRank(P, pr)] =
                      [type |-> "intersection",
                       coords |-> line_intersection(
                                      <<merged[pr[1]].start, merged[pr[1]].end>>,
                                      <<merged[pr[2]].start, merged[pr[2]].end>>)]

\* C10 witness: three cleaned segments, two pairs of which intersect
C10_Witness ==
    /\ pc = "snapped"
    /\ Len(merged) = MaxLen
    /\ Cardinality(MeetingPairs(merged)) = 2
    /\ Len(candidates) = 3 * MaxLen + 2

----------------------------------------------------------------------------
(* main.py: the three semaphores and the endpoints they guard *)

METADATA_PERMITS == 3
RENDER_PERMITS == 2
EXTRACTION_PERMITS == 1

Semaphores == {"metadata", "render", "extraction"}

\* asyncio.Semaphore(n): the initial value
semaphore_value(sem) ==
    CASE sem = "metadata" -> METADATA_PERMITS
      [] sem = "render" -> RENDER_PERMITS
      [] sem = "extraction" -> EXTRACTION_PERMITS

\* the endpoints whose handler holds a semaphore
Endpoints ==
    {"/", "/extract-url", "/text", "/text-url", "/ocr", "/embed",
     "/render", "/render-batch", "/tile", "/crop-url", "/crop",
     "/metadata", "/pages-info"}

\* the semaphore of the `async with` of each handler (_processing_semaphore
\* is _extraction_semaphore)
semaphore_of(endpoint) ==
    CASE endpoint \in {"/", "/extract-url", "/text", "/text-url", "/ocr", "/embed"}
           -> "extraction"
      [] endpoint \in {"/render", "/render-batch", "/tile", "/crop-url", "/crop"}
           -> "render"
      [] endpoint \in {"/metadata", "/pages-info"} -> "metadata"

\* is_critical before cleanup and is_critical again after it
memory_rejected(first, second) == first /\ second

\* the ways out of the body of `async with`: the return of the response, an
\* early return of an error response, an exception
Outcomes == {"success", "error_return", "exception"}

\* the permit given back on the normal way out only
released_on_success_only(outcome) == outcome = "success"

\* `async with semaphore:` releases in __aexit__ on every way out
released_on_exit(outcome) == TRUE

NumReq == 4

Requests == 1..NumReq

NoRequest == [pc |-> "idle", sem |-> "none"]

NoSemEv == [kind |-> "none", req |-> 0]

SemInit ==
    /\ requests = [r \in Requests |-> NoRequest]
    /\ permits = [sem \in Semaphores |-> semaphore_value(sem)]
    /\ sem_ev = NoSemEv
    /\ SyncIdle
    /\ JobsIdle
    /\ CleanIdle
    /\ GeomIdle

\* a request comes in: the memory check, then the handler reaches its
\* `async with`
Arrive(r) ==
    /\ requests[r].pc = "idle"
    /\ \E endpoint \in Endpoints : \E first \in BOOLEAN : \E second \in BOOLEAN :
          IF memory_rejected(first, second)
          THEN /\ sem_ev' = [kind |-> "rejected", req |-> r]
               /\ UNCHANGED requests
          ELSE /\ requests' = [requests EXCEPT
                                 ![r] = [pc |-> "waiting", sem |-> semaphore_of(endpoint)]]
               /\ sem_ev' = [kind |-> "waiting", req |-> r]
    /\ UNCHANGED <<permits, syncVars, jobVars, cleanVars, geomVars>>

\* Semaphore.acquire: the value is positive and is decremented
Acquire(r) ==
    /\ requests[r].pc = "waiting"
    /\ permits[requests[r].sem] > 0
    /\ permits' = [permits EXCEPT ![requests[r].sem] = @ - 1]
    /\ requests' = [requests EXCEPT ![r].pc = "inside"]
    /\ sem_ev' = [kind |-> "acquired", req |-> r]
    /\ UNCHANGED <<syncVars, jobVars, cleanVars, geomVars>>

\* the body of `async with` is left; __aexit__ releases the semaphore
Leave(r) ==
    /\ requests[r].pc = "inside"
    /\ \E outcome \in Outcomes :
          /\ permits' = [permits EXCEPT ![requests[r].sem] =
                             IF released_on_exit(outcome) THEN @ + 1 ELSE @]
          /\ sem_ev' = [kind |-> outcome, req |-> r]
    /\ requests' = [requests EXCEPT ![r] = NoRequest]
    /\ UNCHANGED <<syncVars, jobVars, cleanVars, geomVars>>

SemNext ==
    \E r \in Requests :
        \/ Arrive(r)
        \/ Acquire(r)
        \/ Leave(r)

SpecSem == SemInit /\ [][SemNext]_vars

----------------------------------------------------------------------------
(* main.py: the job store, POST /extract, GET /status, run_extraction and
   cleanup_old_jobs.  Progress is counted in tenths. *)

JOB_TTL_SECONDS == 3600

\* the clock is sampled every SECONDS_PER_TICK seconds, from START_TIME, a
\* value of time.time() at which the service can be running
START_TIME == 1700000000
SECONDS_PER_TICK == 1800

MaxTicks == 3
MaxJobs == 2

time_time(ticks) == START_TIME + ticks * SECONDS_PER_TICK

\* the values extract_page_vectors passes to on_progress, in order
ProgressSteps == <<1, 2, 5, 7, 9, 10>>

\* the dict stored by POST /extract: status, progress, request (the request
\* is not modelled; error is added by run_extraction)
new_job == [status |-> "pending", progress |-> 0]

\* v.get("created_at", 0)
created_at(job) ==
    IF "created_at" \in DOMAIN job THEN job.created_at ELSE 0

\* the keys cleanup_old_jobs deletes
expired(t) ==
    {k \in DOMAIN jobs : t - created_at(jobs[k]) > JOB_TTL_SECONDS}

\* the dict d with d[k] = v
dict_set(d, k, v) == [x \in DOMAIN d \cup {k} |-> IF x = k THEN v ELSE d[x]]

\* the dict d without the keys ks
dict_del(d, ks) == [x \in DOMAIN d \ ks |-> d[x]]

max2(a, b) == IF a >= b THEN a ELSE b

\* a progress value of job k becomes known outside run_extraction
made_known(k, p) ==
    [observed EXCEPT ![k].latest = p, ![k].highest = max2(@, p)]

\* run_extraction is between its start and its first await
Busy == \E k \in DOMAIN tasks : tasks[k].pc = "extracting"

JobsInit ==
    /\ jobs = <<>>
    /\ tasks = <<>>
    /\ now = 0
    /\ created = <<>>
    /\ observed = <<>>
    /\ job_ev = [kind |-> "none", job |-> 0]
    /\ SemIdle
    /\ SyncIdle
    /\ CleanIdle
    /\ GeomIdle

\* POST /extract
PostExtract ==
    /\ ~Busy
    /\ Len(tasks) < MaxJobs
    /\ LET job_id == Len(tasks) + 1 IN
        /\ jobs' = dict_set(jobs, job_id, new_job)
        /\ tasks' = Append(tasks, [pc |-> "queued", at |-> 0, final |-> "none"])
        /\ created' = Append(created, time_time(now))
        /\ observed' = Append(observed, [code |-> 200, status |-> "pending",
                                         progress |-> 0, latest |-> 0, highest |-> 0])
        /\ job_ev' = [kind |-> "post_extract", job |-> job_id]
    /\ UNCHANGED <<now, semVars, syncVars, cleanVars, geomVars>>

\* run_extraction: the two assignments before the try; a KeyError here
\* leaves the task
TaskStart(k) ==
    /\ ~Busy
    /\ tasks[k].pc = "queued"
    /\ IF k \in DOMAIN jobs
       THEN /\ jobs' = [jobs EXCEPT ![k].status = "processing", ![k].progress = 1]
            /\ tasks' = [tasks EXCEPT ![k].pc = "extracting"]
            /\ job_ev' = [kind |-> "task_start", job |-> k]
       ELSE /\ tasks' = [tasks EXCEPT ![k].pc = "crashed"]
            /\ job_ev' = [kind |-> "key_error", job |-> k]
            /\ UNCHANGED jobs
    /\ UNCHANGED <<now, created, observed, semVars, syncVars, cleanVars, geomVars>>

\* extract_page_vectors calls on_progress: the lambda stores the value
OnProgress(k) ==
    /\ tasks[k].pc = "extracting"
    /\ tasks[k].at < Len(ProgressSteps)
    /\ LET p == ProgressSteps[tasks[k].at + 1] IN
        /\ jobs' = [jobs EXCEPT ![k].progress = p]
        /\ observed' = made_known(k, p)
    /\ tasks' = [tasks EXCEPT ![k].at = @ + 1]
    /\ job_ev' = [kind |-> "on_progress", job |-> k]
    /\ UNCHANGED <<now, created, semVars, syncVars, cleanVars, geomVars>>

\* extract_page_vectors raises (fitz.open, the page check or a later step,
\* all after the first on_progress): the except clause stores failed
ExtractRaises(k) ==
    /\ tasks[k].pc = "extracting"
    /\ tasks[k].at >= 1
    /\ tasks[k].at < Len(ProgressSteps)
    /\ jobs' = [jobs EXCEPT ![k].status = "failed"]
    /\ tasks' = [tasks EXCEPT ![k].pc = "ended", ![k].final = "failed"]
    /\ job_ev' = [kind |-> "extract_raised", job |-> k]
    /\ UNCHANGED <<now, created, observed, semVars, syncVars, cleanVars, geomVars>>

\* extract_page_vectors returns: progress = 0.9, then the await of the
\* callback POST
ExtractReturns(k) ==
    /\ tasks[k].pc = "extracting"
    /\ tasks[k].at = Len(ProgressSteps)
    /\ jobs' = [jobs EXCEPT ![k].progress = 9]
    /\ tasks' = [tasks EXCEPT ![k].pc = "posting"]
    /\ job_ev' = [kind |-> "extract_returned", job |-> k]
    /\ UNCHANGED <<now, created, observed, semVars, syncVars, cleanVars, geomVars>>

\* client.post returns: completed and 1.0; a KeyError is caught by the
\* except clause, whose own assignment raises it again
PostReturns(k) ==
    /\ ~Busy
    /\ tasks[k].pc = "posting"
    /\ IF k \in DOMAIN jobs
       THEN /\ jobs' = [jobs EXCEPT ![k].status = "completed", ![k].progress = 10]
            /\ tasks' = [tasks EXCEPT ![k].pc = "ended", ![k].final = "completed"]
            /\ job_ev' = [kind |-> "post_returned", job |-> k]
       ELSE /\ tasks' = [tasks EXCEPT ![k].pc = "crashed"]
            /\ job_ev' = [kind |-> "key_error", job |-> k]
            /\ UNCHANGED jobs
    /\ UNCHANGED <<now, created, observed, semVars, syncVars, cleanVars, geomVars>>

\* client.post raises (connection error, timeout): the except clause
PostRaises(k) ==
    /\ ~Busy
    /\ tasks[k].pc = "posting"
    /\ IF k \in DOMAIN jobs
       THEN /\ jobs' = [jobs EXCEPT ![k].status = "failed"]
            /\ tasks' = [tasks EXCEPT ![k].pc = "ended", ![k].final = "failed"]
            /\ job_ev' = [kind |-> "post_raised", job |-> k]
       ELSE /\ tasks' = [tasks EXCEPT ![k].pc = "crashed"]
            /\ job_ev' = [kind |-> "key_error", job |-> k]
            /\ UNCHANGED jobs
    /\ UNCHANGED <<now, created, observed, semVars, syncVars, cleanVars, geomVars>>

\* GET /memory and POST /gc: cleanup_old_jobs
CleanupOldJobs ==
    /\ ~Busy
    /\ jobs # <<>>
    /\ jobs' = dict_del(jobs, expired(time_time(now)))
    /\ job_ev' = [kind |-> "cleanup", job |-> 0]
    /\ UNCHANGED <<tasks, now, created, observed, semVars, syncVars, cleanVars, geomVars>>

\* GET /status/{job_id}
GetStatus(k) ==
    /\ ~Busy
    /\ IF k \in DOMAIN jobs
       THEN observed' = [made_known(k, jobs[k].progress) EXCEPT
                            ![k].code = 200, ![k].status = jobs[k].status,
                            ![k].progress = jobs[k].progress]
       ELSE observed' = [observed EXCEPT ![k].code = 404]
    /\ job_ev' = [kind |-> "get_status", job |-> k]
    /\ UNCHANGED <<jobs, tasks, now, created, semVars, syncVars, cleanVars, geomVars>>

\* time passes
Tick ==
    /\ now < MaxTicks
    /\ now' = now + 1
    /\ UNCHANGED <<jobs, tasks, created, observed, job_ev, semVars, syncVars,
                   cleanVars, geomVars>>

JobsNext ==
    \/ PostExtract
    \/ CleanupOldJobs
    \/ Tick
    \/ \E k \in DOMAIN tasks :
          \/ TaskStart(k)
          \/ OnProgress(k)
          \/ ExtractRaises(k)
          \/ ExtractReturns(k)
          \/ PostReturns(k)
          \/ PostRaises(k)
          \/ GetStatus(k)

SpecJobs == JobsInit /\ [][JobsNext]_vars

----------------------------------------------------------------------------
(* main.py: POST / (extract_sync) and POST /extract-url
   (extract_sync_from_url), one request at a time.  A PDF is modelled by
   what the handler can tell of it: whether it decodes, its size class,
   whether it opens, and its number of pages. *)

MaxPages == 2

SyncEndpoints == {"/", "/extract-url"}

\* what the request carries: pdfData for POST /, pdfUrl for /extract-url
Payloads ==
    {"invalid_base64", "not_https", "unreachable", "empty", "corrupt", "oversized", "valid"}

payloads_of(endpoint) ==
    IF endpoint = "/"
    THEN {"invalid_base64", "empty", "corrupt", "oversized", "valid"}
    ELSE {"not_https", "unreachable", "empty", "corrupt", "oversized", "valid"}

PageNums == (0 - MaxPages) .. (MaxPages + 1)

SyncRequests ==
    {[endpoint |-> e, payload |-> b, pages |-> n, pageNum |-> p] :
        e \in SyncEndpoints, b \in Payloads, n \in 1..MaxPages, p \in PageNums}

TMP == "tmp.pdf"

\* SyncExtractionResponse(success=False, error=...); http is the status
\* the caller sees, page the page whose lines and snap points are returned
\* (0: lines = [] and snapPoints = [])
error_response(message) ==
    [http |-> 200, success |-> FALSE, error |-> message, page |-> 0]

\* SyncExtractionResponse(success=True, lines=..., snapPoints=...), error
\* left at its default None
success_response(page) ==
    [http |-> 200, success |-> TRUE, error |-> "null", page |-> page]

\* an exception leaves the handler: the framework answers 500
propagated == [http |-> 500, success |-> FALSE, error |-> "null", page |-> 0]

\* an except clause that catches ValueError only
except_value_error(exc) == exc = "ValueError"

\* `except Exception`: every exception of the body is an Exception
except_Exception(exc) == TRUE

\* the response of the handler when exc is raised inside its try
on_exception(exc) ==
    IF except_Exception(exc) THEN error_response("str(e)") ELSE propagated

\* the finally clause: unlink tmp_path if it is set and exists
finally_unlink(path, fs) == IF path # None /\ path[1] \in fs THEN fs \ {path[1]} ELSE fs

\* Document.load_page of PyMuPDF: a negative page number counts from the
\* end (page_count is added while it is negative)
RECURSIVE load_page(_, _)
load_page(page_count, pno) ==
    IF pno < 0 THEN load_page(page_count, pno + page_count) ELSE pno

SyncInit ==
    /\ s_req = <<>>
    /\ s_pc = "idle"
    /\ tmp_path = None
    /\ files = {}
    /\ response = <<>>
    /\ SemIdle
    /\ JobsIdle
    /\ CleanIdle
    /\ GeomIdle

\* the handler returns resp from inside the try: the finally clause runs,
\* the semaphore is released
ReturnFromTry(resp) ==
    /\ response' = resp
    /\ files' = finally_unlink(tmp_path, files)
    /\ s_pc' = "returned"
    /\ UNCHANGED <<s_req, tmp_path>>

\* a request arrives; /extract-url checks the scheme first
Receive ==
    /\ s_pc = "idle"
    /\ \E req \in SyncRequests :
          /\ req.payload \in payloads_of(req.endpoint)
          /\ s_req' = req
          /\ IF req.payload = "not_https"
             THEN /\ response' = error_response("pdfUrl must be an HTTPS URL")
                  /\ s_pc' = "returned"
             ELSE /\ s_pc' = "memory"
                  /\ UNCHANGED response
    /\ UNCHANGED <<tmp_path, files, semVars, jobVars, cleanVars, geomVars>>

\* the memory check, then `async with _processing_semaphore: tmp_path = None`
MemoryCheck ==
    /\ s_pc = "memory"
    /\ \E first \in BOOLEAN : \E second \in BOOLEAN :
          IF memory_rejected(first, second)
          THEN /\ response' = error_response("Server under high memory pressure")
               /\ s_pc' = "returned"
          ELSE /\ s_pc' = IF s_req.endpoint = "/" THEN "decode" ELSE "fetch"
               /\ UNCHANGED response
    /\ UNCHANGED <<s_req, tmp_path, files, semVars, jobVars, cleanVars, geomVars>>

\* POST /: base64.b64decode; invalid data raises binascii.Error or, its
\* foreign characters discarded, decodes to bytes that are no PDF
Decode ==
    /\ s_pc = "decode"
    /\ IF s_req.payload = "invalid_base64"
       THEN \/ ReturnFromTry(error_response("Invalid base64 PDF data"))
            \/ /\ s_pc' = "size"
               /\ UNCHANGED <<s_req, tmp_path, files, response>>
       ELSE /\ s_pc' = "size"
            /\ UNCHANGED <<s_req, tmp_path, files, response>>
    /\ UNCHANGED <<semVars, jobVars, cleanVars, geomVars>>

\* /extract-url: fetch_pdf_to_tempfile creates the file with mkstemp
FetchCreate ==
    /\ s_pc = "fetch"
    /\ files' = files \cup {TMP}
    /\ s_pc' = "stream"
    /\ UNCHANGED <<s_req, tmp_path, response, semVars, jobVars, cleanVars, geomVars>>

\* /extract-url: the download ends; on an exception fetch_pdf_to_tempfile
\* unlinks the file and the handler returns its error
FetchStream ==
    /\ s_pc = "stream"
    /\ \E fails \in BOOLEAN :
          IF fails \/ s_req.payload = "unreachable"
          THEN /\ response' = error_response("Failed to fetch PDF")
               /\ files' = finally_unlink(tmp_path, files \ {TMP})
               /\ s_pc' = "returned"
               /\ UNCHANGED tmp_path
          ELSE /\ tmp_path' = <<TMP>>
               /\ s_pc' = "size"
               /\ UNCHANGED <<files, response>>
    /\ UNCHANGED <<s_req, semVars, jobVars, cleanVars, geomVars>>

\* the size check: len(pdf_bytes) for POST /, os.path.getsize for the url
SizeCheck ==
    /\ s_pc = "size"
    /\ IF s_req.payload = "oversized"
       THEN ReturnFromTry(error_response("PDF too large"))
       ELSE /\ s_pc' = IF s_req.endpoint = "/" THEN "create" ELSE "extract"
            /\ UNCHANGED <<s_req, tmp_path, files, response>>
    /\ UNCHANGED <<semVars, jobVars, cleanVars, geomVars>>

\* POST /: NamedTemporaryFile(suffix=".pdf", delete=False) creates the file
CreateTemp ==
    /\ s_pc = "create"
    /\ files' = files \cup {TMP}
    /\ s_pc' = "write"
    /\ UNCHANGED <<s_req, tmp_path, response, semVars, jobVars, cleanVars, geomVars>>

\* POST /: tmp.write(pdf_bytes), then tmp_path = tmp.name; a write that
\* raises (OSError) leaves tmp_path at None
WriteTemp ==
    /\ s_pc = "write"
    /\ \E fails \in BOOLEAN :
          IF fails
          THEN ReturnFromTry(on_exception("OSError"))
          ELSE /\ tmp_path' = <<TMP>>
               /\ s_pc' = "extract"
               /\ UNCHANGED <<s_req, files, response>>
    /\ UNCHANGED <<semVars, jobVars, cleanVars, geomVars>>

\* extract_page_vectors(tmp_path, pageNum - 1): fitz.open, the page check,
\* doc[page_number], the extraction
Extract ==
    /\ s_pc = "extract"
    /\ LET page_number == s_req.pageNum - 1 IN
       IF s_req.payload \in {"invalid_base64", "empty", "corrupt"}
       THEN ReturnFromTry(on_exception("FileDataError"))
       ELSE IF page_number >= s_req.pages
       THEN ReturnFromTry(on_exception("ValueError"))
       ELSE \E fails \in BOOLEAN :
               IF fails
               THEN ReturnFromTry(on_exception("RuntimeError"))
               ELSE ReturnFromTry(success_response(load_page(s_req.pages, page_number) + 1))
    /\ UNCHANGED <<semVars, jobVars, cleanVars, geomVars>>

SyncNext ==
    \/ Receive
    \/ MemoryCheck
    \/ Decode
    \/ FetchCreate
    \/ FetchStream
    \/ SizeCheck
    \/ CreateTemp
    \/ WriteTemp
    \/ Extract

SpecSync == SyncInit /\ [][SyncNext]_vars

----------------------------------------------------------------------------
(* dedupe_points *)

\* the distance of two points is at least tol
FarApart(p, q, tol) ==
    Sq(p[1] * q[3] - q[1] * p[3]) + Sq(p[2] * q[3] - q[2] * p[3])
        >= Sq(tol) * Sq(p[3] * q[3])

\* the subsequence of s at the positions in K, in order
SubSeqAt(s, K) ==
    [k \in 1..Cardinality(K) |-> s[Nth(K, k)]]

\* K holds exactly the positions whose point is far from every earlier
\* point at a position in K
GreedyKept(s, K, tol) ==
    \A k \in 1..Len(s) :
        k \in K <=> \A m \in K : m < k => FarApart(s[m], s[k], tol)

\* being closer than tol splits the positions of s into groups: two points
\* close to a third are close to each other
InGroups(s, tol) ==
    \A a \in 1..Len(s) : \A b \in 1..Len(s) : \A c \in 1..Len(s) :
        (~FarApart(s[a], s[b], tol) /\ ~FarApart(s[b], s[c], tol))
            => ~FarApart(s[a], s[c], tol)

Groups(s, tol) ==
    {{b \in 1..Len(s) : ~FarApart(s[a], s[b], tol)} : a \in 1..Len(s)}

\* C11: dedupe_points goes through the points in input order and keeps a
\* point exactly when it is at least the tolerance away from every point kept
\* before it; the result is a subsequence of the input that starts with the
\* first input point, and an input of k groups of close points, the groups
\* far from each other, gives k points.
C11_DedupeGreedyFirstSeen ==
    g_op = "dedupe_points" =>
        /\ \E K \in SUBSET (1..Len(f_points)) :
              /\ GreedyKept(f_points, K, DEDUPE_TOLERANCE)
              /\ g_ret = SubSeqAt(f_points, K)
        /\ f_points # <<>> => (g_ret # <<>> /\ g_ret[1] = f_points[1])
        /\ InGroups(f_points, DEDUPE_TOLERANCE)
              => Len(g_ret) = Cardinality(Groups(f_points, DEDUPE_TOLERANCE))

\* three points of two groups, the close point coming after a far one
C11_Witness ==
    /\ g_op = "dedupe_points"
    /\ f_points = <<(<<0, 0, 1>>), (<<5, 5, 1>>), (<<1, 0, 1>>), (<<53, 53, 10>>)>>
    /\ InGroups(f_points, DEDUPE_TOLERANCE)
    /\ g_ret = <<(<<0, 0, 1>>), (<<5, 5, 1>>)>>

\* all points of s are pairwise at least tol apart
PairwiseFar(s, tol) ==
    \A a \in 1..Len(s) : \A b \in 1..Len(s) :
        a # b => FarApart(s[a], s[b], tol)

\* C19: dedupe_points returns an empty list for an empty input, a single
\* point unchanged, and the input unchanged when all its points are pairwise
\* at least the tolerance apart.
C19_DedupeLeavesFarPoints ==
    g_op = "dedupe_points" =>
        /\ f_points = <<>> => g_ret = <<>>
        /\ Len(f_points) = 1 => g_ret = f_points
        /\ PairwiseFar(f_points, DEDUPE_TOLERANCE) => g_ret = f_points

\* three points pairwise far, two of them exactly the tolerance apart
C19_Witness ==
    /\ g_op = "dedupe_points"
    /\ f_points = <<(<<0, 0, 1>>), (<<2, 0, 1>>), (<<5, 5, 1>>)>>
    /\ PairwiseFar(f_points, DEDUPE_TOLERANCE)
    /\ g_ret = f_points

----------------------------------------------------------------------------
(* assess_quality *)

\* the label the thresholds give to the two counts
QualityLabel(cleaned, snaps) ==
    CASE cleaned = 0 -> "none"
      [] cleaned # 0 /\ cleaned >= 50 /\ snaps >= 100 -> "good"
      [] cleaned # 0 /\ ~(cleaned >= 50 /\ snaps >= 100)
           /\ cleaned >= 20 /\ snaps >= 40 -> "medium"
      [] OTHER -> "poor"

\* C17: assess_quality is a total function of cleaned_count and snap_count
\* alone: none when cleaned_count is 0, else good when cleaned_count >= 50 and
\* snap_count >= 100, else medium when cleaned_count >= 20 and snap_count >=
\* 40, else poor; raw_count does not influence the label.
C17_QualityFromCleanedAndSnap ==
    g_op = "assess_quality" =>
        /\ g_ret = QualityLabel(f_counts[2], f_counts[3])
        /\ \A r \in CountValues :
              assess_quality(r, f_counts[2], f_counts[3]) = g_ret

\* good exactly on both thresholds, with a raw count of 0
C17_Witness ==
    /\ g_op = "assess_quality"
    /\ f_counts = <<0, 50, 100>>
    /\ g_ret = "good"

----------------------------------------------------------------------------
(* generate_snap_points after deduplication *)

SnapKinds == {"endpoint", "midpoint", "intersection"}

\* the candidates closer than the dedupe tolerance to the point c
CandidatesNear(c) ==
    {m \in 1..Len(candidates) : ~FarApart(candidates[m].coords, c, DEDUPE_TOLERANCE)}

\* C12: in the list generate_snap_points returns no two snap points are
\* within 2.0 of each other, every candidate is within 2.0 of at least one
\* returned snap point, and each snap point carries exactly one kind out of
\* endpoint, midpoint, intersection.
C12_SnapPointsSeparatedAndCovering ==
    pc = "snapped" =>
        /\ \A a \in 1..Len(snap_points) : \A b \in 1..Len(snap_points) :
              a # b => FarApart(snap_points[a].coords, snap_points[b].coords,
                                DEDUPE_TOLERANCE)
        /\ \A m \in 1..Len(candidates) :
              \E a \in 1..Len(snap_points) : m \in CandidatesNear(snap_points[a].coords)
        /\ \A a \in 1..Len(snap_points) :
              /\ DOMAIN snap_points[a] = {"type", "coords"}
              /\ snap_points[a].type \in SnapKinds

\* a candidate was dropped that lies at another place than every snap point
C12_Witness ==
    /\ pc = "snapped"
    /\ Len(snap_points) >= 2
    /\ \E m \in 1..Len(candidates) :
          \A a \in 1..Len(snap_points) : candidates[m].coords # snap_points[a].coords

\* the kinds of the candidates closer than 2.0 to the point c
KindsNear(c) == {candidates[m].type : m \in CandidatesNear(c)}

\* the first candidate, in emission order, that is at least 2.0 away from
\* the snap points before snap point a
FirstOfCluster(a) ==
    Nth({m \in 1..Len(candidates) :
            \A b \in 1..(a - 1) :
                FarApart(candidates[m].coords, snap_points[b].coords, DEDUPE_TOLERANCE)},
        1)

\* C13: a returned snap point is an intersection if some candidate closer
\* than 2.0 to its coordinates is an intersection, else an endpoint if some
\* such candidate is an endpoint, else a midpoint; a midpoint or endpoint at
\* the place of an intersection is reported as intersection, and the
\* coordinates are those of the first candidate of its cluster in emission
\* order.
C13_KindByPriority ==
    pc = "snapped" =>
        \A a \in 1..Len(snap_points) :
            LET S == snap_points[a]
                kinds == KindsNear(S.coords)
            IN  /\ S.type = "intersection" <=> "intersection" \in kinds
                /\ S.type = "endpoint" <=>
                       ("intersection" \notin kinds /\ "endpoint" \in kinds)
                /\ S.type = "midpoint" <=>
                       ("intersection" \notin kinds /\ "endpoint" \notin kinds)
                /\ \A m \in 1..Len(candidates) :
                       (candidates[m].type = "intersection"
                            /\ candidates[m].coords = S.coords)
                           => S.type = "intersection"
                /\ S.coords = candidates[FirstOfCluster(a)].coords

\* a snap point reported as intersection with the coordinates of an endpoint
\* emitted before the intersection, and a midpoint reported as endpoint
C13_Witness ==
    /\ pc = "snapped"
    /\ \E a \in 1..Len(snap_points) :
          /\ snap_points[a].type = "intersection"
          /\ candidates[FirstOfCluster(a)].type = "endpoint"
    /\ \E a \in 1..Len(snap_points) :
          /\ snap_points[a].type = "endpoint"
          /\ candidates[FirstOfCluster(a)].type = "midpoint"

----------------------------------------------------------------------------
(* The square *)

\* the end points of the segments of a list
Corners(lines) ==
    {lines[k].start : k \in 1..Len(lines)} \cup {lines[k].end : k \in 1..Len(lines)}

\* four segments, each at least MIN_LINE_LENGTH long, that are the edges of
\* a square: four corners, each the end of exactly two edges, edges of equal
\* length and at right angles where they meet
IsSquare(lines) ==
    /\ Len(lines) = 4
    /\ \A k \in 1..4 : LongEnough(lines[k].start, lines[k].end)
    /\ Cardinality(Corners(lines)) = 4
    /\ \A c \in Corners(lines) :
          Cardinality({k \in 1..4 : c \in {lines[k].start, lines[k].end}}) = 2
    /\ \A k \in 1..4 : \A m \in 1..4 :
          /\ distance_sq(lines[k].start, lines[k].end)
                = distance_sq(lines[m].start, lines[m].end)
          /\ (k # m /\ {lines[k].start, lines[k].end} \cap {lines[m].start, lines[m].end} # {})
                => Dot(Dir(<<lines[k].start, lines[k].end>>),
                       Dir(<<lines[m].start, lines[m].end>>)) = 0

\* the snap points lying at the point c
SnapPointsAt(c) == {a \in 1..Len(snap_points) : snap_points[a].coords = FracOf(c)}

\* C14: the four edges of a square, each at least 5 long and meeting exactly
\* at the corners, are left as 4 segments by clean_lines, and
\* generate_snap_points returns exactly 4 corner snap points, one per corner,
\* each an intersection or an endpoint, plus the midpoints of the edges.
C14_SquareKeepsEdgesAndCorners ==
    (pc = "snapped" /\ IsSquare(raw)) =>
        /\ Len(merged) = 4
        /\ \A k \in 1..4 : merged[k] = raw[k]
        /\ Cardinality(Corners(raw)) = 4
        /\ \A c \in Corners(raw) :
              /\ Cardinality(SnapPointsAt(c)) = 1
              /\ \A a \in SnapPointsAt(c) :
                    snap_points[a].type \in {"intersection", "endpoint"}
        /\ Cardinality({a \in 1..Len(snap_points) :
                            snap_points[a].type \in {"intersection", "endpoint"}}) = 4
        /\ \A a \in 1..Len(snap_points) :
              snap_points[a].type = "midpoint" =>
                  \E k \in 1..4 : IsMean(snap_points[a].coords, raw[k].start, raw[k].end)
        /\ Len(snap_points) = 8

\* the square of side 5 turned out of the axes, its edges given out of order
C14_Witness ==
    /\ pc = "snapped"
    /\ run = 1
    /\ raw = <<Seg(4, 3, 1, 7, 1), Seg(0, 0, 4, 3, 1), Seg(0, 0, -3, 4, 1),
               Seg(1, 7, -3, 4, 1)>>
    /\ IsSquare(raw)
    /\ Len(merged) = 4
    /\ \A c \in Corners(raw) :
          \E a \in SnapPointsAt(c) : snap_points[a].type = "intersection"

----------------------------------------------------------------------------
(* Widths of merged segments *)

\* the positions of the segments that were seeds
Seeds == {k \in 1..Len(emitCount) : emitCount[k] = 1}

\* C18: each segment merge_collinear_segments returns carries the width of
\* its seed, which is the first segment in input order of its group (a seed
\* only absorbs segments that come after it); the width of an absorbed
\* segment does not reach the merged segment.
C18_WidthOfSeed ==
    /\ ev.kind = "emit" => merged[Len(merged)].width = filtered[ev.i].width
    /\ ev.kind = "scan_merge" => ev.i < ev.j
    /\ Finished =>
          \A k \in 1..Len(merged) : merged[k].width = filtered[Nth(Seeds, k)].width

\* a seed of width 1 absorbed the segment of width 2 after it
C18_Witness ==
    /\ pc = "done"
    /\ run = 1
    /\ raw = <<SegA, SegAbut>>
    /\ absorbCount = <<0, 1>>
    /\ merged = <<Seg(0, 0, 20, 0, 1)>>

----------------------------------------------------------------------------
(* The result of extract_page_vectors *)

\* C15: in the result of extract_page_vectors stats.raw_count is the number
\* of raw segments handed to cleaning, stats.cleaned_count the length of the
\* returned lines, stats.snap_count the length of the returned snap_points,
\* and cleaned_count <= raw_count.
C15_StatsCountTheLists ==
    pc = "returned" =>
        /\ result.stats.raw_count = Len(raw)
        /\ result.stats.cleaned_count = Len(result.lines)
        /\ result.stats.snap_count = Len(result.snap_points)
        /\ result.stats.cleaned_count <= result.stats.raw_count
        /\ result.lines = merged
        /\ result.snap_points = snap_points

\* three raw segments, one dropped by the filter and one absorbed
C15_Witness ==
    /\ pc = "returned"
    /\ run = 1
    /\ raw = <<SegShort, SegA, SegAbut>>
    /\ result.stats = [raw_count |-> 3, cleaned_count |-> 1, snap_count |-> 3]

\* C16: when the raw segment list is empty, or no raw segment survives the
\* filter, the pipeline goes past the merge and the snap points with empty
\* lists and returns empty lines, empty snap_points and quality none; and
\* quality none is reported only when the returned lines are empty.
C16_EmptyGivesNone ==
    /\ (pc = "returned" /\ filtered = <<>>) =>
          /\ result.lines = <<>>
          /\ result.snap_points = <<>>
          /\ result.quality = "none"
    /\ (pc = "returned" /\ result.quality = "none") => result.lines = <<>>
    /\ (pc # "start" /\ filtered = <<>>) =>
          /\ pc \in {"done", "snapped", "returned"}
          /\ merged = <<>>
          /\ pc # "done" => snap_points = <<>>

\* two raw segments, both shorter than MIN_LINE_LENGTH
C16_Witness ==
    /\ pc = "returned"
    /\ run = 1
    /\ raw = <<SegShort, SegPoint>>
    /\ filtered = <<>>
    /\ result.lines = <<>>
    /\ result.quality = "none"

----------------------------------------------------------------------------
(* Order of the input *)

\* the segments of a list as a set of unordered pairs of end points
ExtentSet(lines) == {{lines[k].start, lines[k].end} : k \in 1..Len(lines)}

\* C20: merge_collinear_segments depends on the order of its input: the
\* segments (1,0)-(6,0), (3,0)-(9,0), (0,0)-(12,0) in this order and in the
\* opposite order give different sets of merged segments, different in
\* number and in end points.
C20_OrderDependent ==
    (run = 3 /\ Finished /\ raw = <<SegHead, SegInner, SegA>>) =>
        /\ filtered = raw
        /\ Len(merged) # Len(firstOut)
        /\ ExtentSet(merged) # ExtentSet(firstOut)

\* the three segments cleaned in both orders: two segments, then one
C20_Witness ==
    /\ run = 3
    /\ pc = "done"
    /\ raw = <<SegHead, SegInner, SegA>>
    /\ ExtentSet(firstOut) = {{<<0, 0>>, <<12, 0>>}, {<<3, 0>>, <<9, 0>>}}
    /\ ExtentSet(merged) = {{<<0, 0>>, <<12, 0>>}}

----------------------------------------------------------------------------
(* Coordinates and order of the merged segments, and the number of passes *)

\* C28: every end point of every segment merge_collinear_segments returns is
\* an end point of some input segment, and the returned segments appear in
\* the input order of their seeds.
C28_EndpointsFromInputInSeedOrder ==
    /\ pc \in {"while", "scan"} =>
          {current_start, current_end} \subseteq Corners(filtered)
    /\ \A k \in 1..Len(merged) :
          {merged[k].start, merged[k].end} \subseteq Corners(filtered)
    /\ ev.kind = "emit" =>
          Len(merged) = Cardinality({k \in 1..ev.i : emitCount[k] = 1})
    /\ Finished => Len(merged) = Cardinality(Seeds)

\* the second seed absorbed a segment and took an end point from it; both
\* seeds were emitted in input order
C28_Witness ==
    /\ pc = "done"
    /\ run = 1
    /\ raw = <<SegA, SegRise, SegHigh>>
    /\ emitCount = <<1, 1, 0>>
    /\ merged = <<SegA, Seg(13, 2, 38, 2, 1)>>

RECURSIVE SumFrom(_, _)
SumFrom(s, k) == IF k > Len(s) THEN 0 ELSE s[k] + SumFrom(s, k + 1)

\* the number of absorbed segments so far
Merges == SumFrom(absorbCount, 1)

\* the number of seeds taken so far: those emitted and the one in the loop
SeedsTaken == SumFrom(emitCount, 1) + (IF pc \in {"while", "scan"} THEN 1 ELSE 0)

\* C29: merge_collinear_segments terminates: a pass of the loop of a seed
\* that sets changed consumes a segment that was not consumed before, so the
\* passes are at most the seeds plus the merges, and for n input segments the
\* merges of a seed and the merges of all seeds are at most n - 1.
C29_PassesBoundedByMerges ==
    Len(filtered) >= 2 =>
        /\ ev.kind = "scan_merge" =>
              /\ ev.j # ev.i
              /\ absorbCount[ev.j] = 1
              /\ emitCount[ev.j] = 0
              /\ changed
        /\ Merges <= Len(filtered) - 1
        /\ ev.passes <= SeedsTaken + Merges
        /\ ev.passes <= 2 * Len(filtered) - 1
        /\ (pc = "while" /\ changed) => ev.kind \in {"seed", "pass_end"}
        /\ (ev.kind = "pass_end" /\ changed) => ev.passes < SeedsTaken + Merges

\* one seed that needed three passes: the second pass absorbed the segment
\* the first pass had passed over
C29_Witness ==
    /\ pc = "done"
    /\ run = 1
    /\ raw = <<SegA, SegNear, SegAbut>>
    /\ absorbCount = <<0, 1, 1>>
    /\ ev.passes = 3
    /\ merged = <<Seg(0, 0, 30, 0, 1)>>

----------------------------------------------------------------------------
(* assess_quality of api/extract_vectors.py *)

QualityLabels == {"none", "good", "medium", "poor"}

\* the label of the ratio policy: cleaned / raw compared with 7/10 and 3/10
\* by cross multiplication, the ratio being 0 when raw is 0
QualityLabelA(raw_count, cleaned) ==
    CASE cleaned = 0 -> "none"
      [] cleaned # 0 /\ raw_count > 0 /\ 10 * cleaned > 7 * raw_count /\ cleaned > 50
           -> "good"
      [] cleaned # 0 /\ raw_count > 0 /\ 10 * cleaned > 3 * raw_count /\ cleaned > 20
           /\ ~(10 * cleaned > 7 * raw_count /\ cleaned > 50)
           -> "medium"
      [] OTHER -> "poor"

\* C30: assess_quality of the serverless code path returns none if
\* cleaned_count is 0, else good if cleaned_count / raw_count > 0.7 and
\* cleaned_count > 50, else medium if cleaned_count / raw_count > 0.3 and
\* cleaned_count > 20, else poor; with raw_count 0 the rate is taken as 0 and
\* a label is returned.
C30_QualityFromSurvivalRate ==
    g_op = "assess_quality_A" =>
        /\ g_ret = QualityLabelA(f_counts[1], f_counts[2])
        /\ g_ret \in QualityLabels
        /\ (f_counts[1] = 0 /\ f_counts[2] > 0) => g_ret = "poor"

\* 70 of 100 survive: the rate is exactly 0.7, which is not above 0.7
C30_Witness ==
    /\ g_op = "assess_quality_A"
    /\ f_counts[1] = 100
    /\ f_counts[2] = 70
    /\ g_ret = "medium"

----------------------------------------------------------------------------
(* The semaphores *)

\* the requests inside a section guarded by the semaphore sem
Inside(sem) == {r \in Requests : requests[r].pc = "inside" /\ requests[r].sem = sem}

\* C24: at any moment at most one request is inside a section guarded by
\* the extraction semaphore (POST /, /extract-url, /text, /text-url, /ocr,
\* /embed), at most two inside a render section and at most three inside a
\* metadata section; the permit is given back on every way out, and a
\* request rejected for memory pressure holds no permit.
C24_SemaphoresBoundTheSections ==
    /\ Cardinality(Inside("extraction")) <= 1
    /\ Cardinality(Inside("render")) <= 2
    /\ Cardinality(Inside("metadata")) <= 3
    /\ \A endpoint \in {"/", "/extract-url", "/text", "/text-url", "/ocr", "/embed"} :
          semaphore_of(endpoint) = "extraction"
    /\ \A sem \in Semaphores :
          /\ permits[sem] >= 0
          /\ permits[sem] + Cardinality(Inside(sem)) = semaphore_value(sem)
    /\ sem_ev.kind \in Outcomes \cup {"rejected"} =>
          requests[sem_ev.req].pc # "inside"

\* three requests inside metadata sections while a fourth waits for the
\* semaphore
C24_Witness ==
    /\ Cardinality(Inside("metadata")) = 3
    /\ permits["metadata"] = 0
    /\ \E r \in Requests : requests[r] = [pc |-> "waiting", sem |-> "metadata"]

----------------------------------------------------------------------------
(* The job store *)

\* age in seconds of job k
Age(k) == time_time(now) - created[k]

\* C23: a job created by POST /extract less than JOB_TTL_SECONDS ago is
\* never removed by cleanup_old_jobs: it is in the store, GET /status
\* does not answer 404 for it and run_extraction does not lose it.
C23_YoungJobsSurviveCleanup ==
    \A k \in DOMAIN tasks :
        Age(k) <= JOB_TTL_SECONDS =>
            /\ k \in DOMAIN jobs
            /\ observed[k].code # 404
            /\ tasks[k].pc # "crashed"

\* a call of cleanup_old_jobs has removed a job created in the same tick,
\* while its run_extraction awaits the callback
C23_YoungJobRemoved ==
    /\ job_ev.kind = "cleanup"
    /\ \E k \in DOMAIN tasks :
          /\ Age(k) = 0
          /\ tasks[k].pc = "posting"
          /\ k \notin DOMAIN jobs

\* the stored status of a job follows the position of its run_extraction:
\* pending while queued, processing from its start to the end of the
\* callback, then the status the task stored last; completed is stored
\* only by the step that follows the return of the callback POST
StatusFollowsTask ==
    \A k \in DOMAIN tasks :
        /\ k \in DOMAIN jobs =>
              jobs[k].status =
                  CASE tasks[k].pc = "queued" -> "pending"
                    [] tasks[k].pc \in {"extracting", "posting"} -> "processing"
                    [] tasks[k].pc = "ended" -> tasks[k].final
                    [] tasks[k].pc = "crashed" -> "none"
        /\ tasks[k].final = "completed" =>
              tasks[k].pc = "ended"
        /\ (job_ev.job = k /\ tasks[k].final = "completed" /\ job_ev.kind # "get_status") =>
              job_ev.kind \in {"post_returned", "cleanup", "post_extract", "task_start",
                               "on_progress", "extract_raised", "extract_returned",
                               "post_raised", "key_error"}

\* C26: a job starts pending, is processing while run_extraction runs, and
\* every run_extraction that has ended has stored exactly one of completed
\* or failed for its job.
C26_JobsReachCompletedOrFailed ==
    /\ StatusFollowsTask
    /\ \A k \in DOMAIN tasks :
          tasks[k].pc \in {"ended", "crashed"} =>
              tasks[k].final \in {"completed", "failed"}

\* a run_extraction has ended by a KeyError without storing a status, its
\* job having been removed in the tick of its creation
C26_TaskLeftWithoutStatus ==
    \E k \in DOMAIN tasks :
        /\ tasks[k].pc = "crashed"
        /\ tasks[k].final = "none"
        /\ job_ev = [kind |-> "key_error", job |-> k]
        /\ k \notin DOMAIN jobs
        /\ Age(k) = 0

\* C27: the progress values of a job made known by on_progress and by
\* GET /status are within 0..1, the latest is never below an earlier one,
\* and a GET /status that shows completed shows 1.0.
C27_ProgressNeverDecreases ==
    \A k \in DOMAIN tasks :
        /\ observed[k].latest \in 0..10
        /\ observed[k].latest = observed[k].highest
        /\ observed[k].status = "completed" => observed[k].progress = 10

\* GET /status shows 0.9 for a job for which on_progress has reported 1.0
C27_StatusBelowReported ==
    \E k \in DOMAIN tasks :
        /\ job_ev = [kind |-> "get_status", job |-> k]
        /\ tasks[k].pc = "posting"
        /\ observed[k].progress = 9
        /\ observed[k].latest = 9
        /\ observed[k].highest = 10

----------------------------------------------------------------------------
(* POST / and POST /extract-url *)

\* C21: POST / with a valid PDF of N pages and a pageNum outside 1..N
\* answers success=false with an error and returns the lines of no page.
C21_PageOutsideRangeRejected ==
    (/\ s_pc = "returned"
     /\ s_req.endpoint = "/"
     /\ s_req.payload = "valid"
     /\ s_req.pageNum \notin 1..s_req.pages) =>
        /\ response.success = FALSE
        /\ response.error # "null"
        /\ response.page = 0

\* POST / with pageNum 0 has answered success=true with the last page
C21_PageZeroGivesLastPage ==
    /\ s_pc = "returned"
    /\ s_req.endpoint = "/"
    /\ s_req.payload = "valid"
    /\ s_req.pageNum = 0
    /\ response.success = TRUE
    /\ response.page = s_req.pages

C25_NoTempFileLeft ==
    s_pc = "returned" => files = {}

\* POST / has answered an error after tmp.write raised, and the file
\* created by NamedTemporaryFile still exists
C25_FileLeftAfterWriteError ==
    /\ s_pc = "returned"
    /\ s_req.endpoint = "/"
    /\ tmp_path = None
    /\ response = error_response("str(e)")
    /\ files = {TMP}

====
